---- MODULE Spec2Model ----
(***************************************************************************)
(* Model of the retail price cache of azure_bom_costing:                   *)
(*   - retail_download_to_csv: the resumable, checkpointed, lock-guarded   *)
(*     downloader (pricing/retail.py);                                     *)
(*   - the paginated fetch loops (pricing/retail.py, pricing_sources.py);  *)
(*   - the offline filter interpreter (pricing/retail.py).                 *)
(* Files of one cache target are modelled by their content; every download *)
(* call is a process whose position is pc[p].                              *)
(***************************************************************************)
EXTENDS Integers, Sequences, FiniteSets, TLC

\* ------------------------------------------------------------------------
\* Bounds of the model
\* ------------------------------------------------------------------------
NProcs == 2          \* download calls that may overlap on one target
NPages == 2          \* pages of the catalog served by the API
MaxFaults == 1       \* interruptions (exceptions, kills) injected in a run
MaxCalls == 2        \* calls made in a run
MaxLegacyFetches == 4 \* pages one legacy fetch loop may receive

\* ------------------------------------------------------------------------
\* Program constants
\* ------------------------------------------------------------------------
\* Faulty variant: one more attempt per page
max_attempts_five == 4 + 1

max_attempts == 4

Procs == 1..NProcs
Pages == 1..NPages

\* ------------------------------------------------------------------------
\* Prices as the API / CSV carries them: missing, unparseable text or number
\* ------------------------------------------------------------------------
NoPrice == [k |-> "none", v |-> 0]
BadPrice == [k |-> "bad", v |-> 0]
Num(n) == [k |-> "num", v |-> n]

\* helpers/math.py decimal(): Decimal(str(val)), the default 0 on failure
decimal(val) == IF val.k = "num" THEN val.v ELSE 0

\* ------------------------------------------------------------------------
\* Text as sequences of one-character strings
\* ------------------------------------------------------------------------
tAUD == <<"A", "U", "D">>
tUSD == <<"U", "S", "D">>
tCompute == <<"V", "M">>
tStorage == <<"B", "l", "o", "b">>
tMeterA == <<"D", "2">>
tMeterB == <<"H", "o", "t">>

\* ------------------------------------------------------------------------
\* The catalog served by the retail API: item i of the raw feed
\* ------------------------------------------------------------------------
ItemsPerPage == 3

RawRetail(i) ==
    CASE i % 6 = 1 -> Num(2)
      [] i % 6 = 2 -> NoPrice
      [] i % 6 = 3 -> Num(0)
      [] i % 6 = 4 -> BadPrice
      [] i % 6 = 5 -> Num(0 - 1)
      [] OTHER     -> Num(4)

RawUnit(i) ==
    CASE i % 6 = 2 -> Num(3)
      [] i % 6 = 3 -> Num(5)
      [] i % 6 = 5 -> Num(5)
      [] OTHER     -> NoPrice

RawItem(i) ==
    [meterId      |-> i,
     serviceName  |-> IF i % 2 = 1 THEN tCompute ELSE tStorage,
     meterName    |-> IF i % 2 = 1 THEN tMeterA ELSE tMeterB,
     currencyCode |-> tAUD,
     retailPrice  |-> RawRetail(i),
     unitPrice    |-> RawUnit(i)]

\* data["Items"] of the page
Items(page) ==
    [k \in 1..ItemsPerPage |-> RawItem(ItemsPerPage * (page - 1) + k)]

\* helpers/csv.py _clean_row_to_allowed: only the price symmetry changes a
\* row that already carries canonical names
_clean_row_to_allowed(r) ==
    LET unit_price == IF r.unitPrice.k = "none" /\ r.retailPrice.k # "none"
                      THEN r.retailPrice ELSE r.unitPrice
        retail_price == IF r.retailPrice.k = "none" /\ r.unitPrice.k # "none"
                        THEN r.unitPrice ELSE r.retailPrice
    IN [r EXCEPT !.unitPrice = unit_price, !.retailPrice = retail_price]

clean_rows(rows) == [i \in 1..Len(rows) |-> _clean_row_to_allowed(rows[i])]

\* row.get("retailPrice") or row.get("unitPrice") or 0 on a cleaned row:
\* every present value is a non-empty string, hence truthy
PriceOf(row) ==
    IF row.retailPrice.k # "none" THEN decimal(row.retailPrice)
    ELSE IF row.unitPrice.k # "none" THEN decimal(row.unitPrice)
    ELSE 0

\* Faulty variant: a price of zero passes the test
_has_positive_price_zero(row) == PriceOf(row) >= 0

_has_positive_price(row) == PriceOf(row) > 0

RECURSIVE WritableRows(_)
WritableRows(s) ==
    IF s = <<>> THEN <<>>
    ELSE IF _has_positive_price(Head(s)) THEN <<Head(s)>> \o WritableRows(Tail(s))
    ELSE WritableRows(Tail(s))

\* lines 216-226: the rows of a page that the downloader writes
PageRows(page) == WritableRows(clean_rows(Items(page)))

\* ------------------------------------------------------------------------
\* URLs: the page a link designates and whether it carries currencyCode=
\* ------------------------------------------------------------------------
NullLink == [page |-> 0, cur |-> FALSE]
base == [page |-> 1, cur |-> TRUE]
LinkTo(page) == IF page = 0 THEN NullLink ELSE [page |-> page, cur |-> (page % 2 = 1)]
EnsureCurrency(u) == IF u.cur THEN u ELSE [u EXCEPT !.cur = TRUE]

\* ------------------------------------------------------------------------
\* Files
\* ------------------------------------------------------------------------
NoFile == [exists |-> FALSE, hdr |-> FALSE, rows |-> <<>>]
NoCheckpoint == [exists |-> FALSE, next_link |-> NullLink, rows_written |-> 0, page_no |-> 0]

VARIABLES
    nextPage,       \* server: page -> page its NextPageLink designates, 0 = null
    part,           \* out_csv_path.part
    target,         \* out_csv_path
    cp,             \* out_csv_path.checkpoint
    lock,           \* out_csv_path.lock exists
    pc,             \* position of each download call
    next_url, total_written, page_no, url, seen_urls, attempt, buf, result,
    faults,         \* interruptions injected so far
    calls,          \* calls made so far
    track,          \* whether the requests of a call are logged
    client,         \* which routine the call runs
    fetchlog,       \* pages received by the current call, in order
    reqs,           \* GETs sent per page by the current call
    o_pc, o_clauses, o_joiner, o_currency, o_out   \* the last offline query

VARIABLES
    ent_rows,       \* the rows of the negotiated price sheet
    ent_prices,     \* the negotiated index: key -> price
    e_pc,           \* position of the index: "idle", "built", "looked"
    e_builder,      \* which normalise_enterprise_rows built the index
    e_query,        \* the key last looked up
    e_consulted,    \* the keys that lookup tested, in order
    e_found         \* what the lookup returned

VARIABLES
    catalog,        \* the rows the Retail Prices API serves
    dumped,         \* whether the pages of the catalog were saved locally
    r_pc,           \* position of the handler that prices a component
    r_handler,      \* "service" (price_by_service) or "vm" (price_vm)
    r_comp,         \* the component being priced
    r_log,          \* the price sources consulted so far, in order
    r_items,        \* the retail rows fetched for the component
    r_ret           \* what the handler returned

VARIABLES
    p_pc,           \* position of the selection: "idle", "picked"
    p_routine,      \* the selection routine applied
    p_items,        \* the candidate rows
    p_uom,          \* the preferred unit of measure
    p_os,           \* the operating system preferred by _pick_vm_item
    p_row           \* the row returned, <<>> for None

VARIABLES
    m_pc,           \* position of run_model
    m_bom,          \* the workloads of the bill of materials
    m_w, m_c,       \* the workload and the component being priced
    m_lines,        \* the component lines printed so far
    m_wl_total,     \* wl_total of the current workload
    m_summary,      \* the workload lines printed so far
    m_grand         \* grand_total_opt

VARIABLES
    l_pc,           \* position of _load_enterprise_prices
    l_cfg,          \* its arguments and what the sources answer
    l_source,       \* where the returned index came from
    l_tried         \* tried_enterprise

VARIABLES
    u_pc,           \* position of the unit normalizer: "idle", "done"
    u_uom,          \* the unit-of-measure text it was given
    u_item,         \* the row whose names it was given
    u_ret           \* the batch size it returned

VARIABLES
    s_pc,           \* position of candidate selection
    s_handler,      \* the handler whose selection runs
    s_batches,      \* what each filter of the cascade answered
    s_items,        \* the merged candidates
    s_row,          \* the row selected, <<>> for None
    s_unit,         \* the unit price used
    s_raised        \* whether the handler raised

index == <<ent_rows, ent_prices, e_pc, e_builder, e_query, e_consulted, e_found>>
resolver == <<catalog, dumped, r_pc, r_handler, r_comp, r_log, r_items, r_ret>>
picker == <<p_pc, p_routine, p_items, p_uom, p_os, p_row>>
runner == <<m_pc, m_bom, m_w, m_c, m_lines, m_wl_total, m_summary, m_grand>>
loader == <<l_pc, l_cfg, l_source, l_tried>>
normalizer == <<u_pc, u_uom, u_item, u_ret>>
selector == <<s_pc, s_handler, s_batches, s_items, s_row, s_unit, s_raised>>
selection == <<normalizer, selector>>
program == <<picker, runner, loader, selection>>
pricing == <<index, resolver, program>>

vars == <<nextPage, part, target, cp, lock, pc, next_url, total_written, page_no,
          url, seen_urls, attempt, buf, result, faults, calls, track, client, fetchlog, reqs,
          o_pc, o_clauses, o_joiner, o_currency, o_out, pricing>>

files == <<part, target, cp, lock>>
locals == <<next_url, total_written, page_no, url, seen_urls, attempt, buf, result>>
hist == <<fetchlog, reqs, client>>
offline == <<o_pc, o_clauses, o_joiner, o_currency, o_out>>

Terminal == {"idle", "done", "failed", "refused", "killed"}
InTry == {"open", "get", "flush", "checkpoint", "finalize", "verify"}

NextPageLink(page) == LinkTo(nextPage[page])

LinearLinks == [p \in Pages |-> IF p < NPages THEN p + 1 ELSE 0]

\* a missing price in the index, and the answer of a lookup that misses
NotFound == [found |-> FALSE, px |-> 0]
Found(px) == [found |-> TRUE, px |-> px]
NoKey == <<<<>>, <<>>, <<>>, <<>>>>

\* no price sheet has been read
IndexIdle ==
    /\ ent_rows = <<>>
    /\ ent_prices = <<>>
    /\ e_pc = "idle"
    /\ e_builder = "none"
    /\ e_query = NoKey
    /\ e_consulted = <<>>
    /\ e_found = NotFound

NoComp == [service |-> <<>>, sku |-> <<>>, region |-> <<>>, uom |-> <<>>, os |-> <<>>, qty |-> 0, hours |-> 0]
NoRet == [unit |-> 0, total |-> 0, desc |-> "none", error |-> FALSE]

\* no component is being priced
ResolverIdle ==
    /\ catalog = <<>>
    /\ dumped = FALSE
    /\ r_pc = "idle"
    /\ r_handler = "none"
    /\ r_comp = NoComp
    /\ r_log = <<>>
    /\ r_items = <<>>
    /\ r_ret = NoRet

\* no selection has been made
PickerIdle ==
    /\ p_pc = "idle"
    /\ p_routine = "none"
    /\ p_items = <<>>
    /\ p_uom = <<>>
    /\ p_os = <<>>
    /\ p_row = <<>>

\* run_model has not been called
RunnerIdle ==
    /\ m_pc = "idle"
    /\ m_bom = <<>>
    /\ m_w = 0
    /\ m_c = 0
    /\ m_lines = <<>>
    /\ m_wl_total = 0
    /\ m_summary = <<>>
    /\ m_grand = 0

NoCfg == [api |-> "none", token |-> FALSE, account |-> FALSE, download |-> "fails", csv |-> "none"]

\* _load_enterprise_prices has not been called
LoaderIdle ==
    /\ l_pc = "idle"
    /\ l_cfg = NoCfg
    /\ l_source = "none"
    /\ l_tried = FALSE

NoNames == [meterName |-> <<>>, productName |-> <<>>, skuName |-> <<>>]

\* the unit normalizer has not been called
NormalizerIdle ==
    /\ u_pc = "idle"
    /\ u_uom = <<>>
    /\ u_item = NoNames
    /\ u_ret = 0

\* no candidate selection has run
SelectorIdle ==
    /\ s_pc = "idle"
    /\ s_handler = "none"
    /\ s_batches = <<>>
    /\ s_items = <<>>
    /\ s_row = <<>>
    /\ s_unit = 0
    /\ s_raised = FALSE

SelectionIdle == NormalizerIdle /\ SelectorIdle

ProgramIdle == PickerIdle /\ RunnerIdle /\ LoaderIdle /\ SelectionIdle

PricingIdle == IndexIdle /\ ResolverIdle /\ ProgramIdle

Init ==
    /\ nextPage = LinearLinks
    /\ part = NoFile
    /\ target = NoFile
    /\ cp = NoCheckpoint
    /\ lock = FALSE
    /\ pc = [p \in Procs |-> "idle"]
    /\ next_url = [p \in Procs |-> NullLink]
    /\ total_written = [p \in Procs |-> 0]
    /\ page_no = [p \in Procs |-> 0]
    /\ url = [p \in Procs |-> NullLink]
    /\ seen_urls = [p \in Procs |-> {}]
    /\ attempt = [p \in Procs |-> 0]
    /\ buf = [p \in Procs |-> <<>>]
    /\ result = [p \in Procs |-> 0]
    /\ faults = 0
    /\ calls = 0
    /\ track = FALSE
    /\ client = [p \in Procs |-> "download"]
    /\ fetchlog = [p \in Procs |-> <<>>]
    /\ reqs = [p \in Procs |-> [g \in Pages |-> 0]]
    /\ o_pc = "idle"
    /\ o_clauses = <<>>
    /\ o_joiner = <<>>
    /\ o_currency = <<>>
    /\ o_out = <<>>
    /\ PricingIdle

\* ------------------------------------------------------------------------
\* retail_download_to_csv, one action per step between two interruptible
\* points.  pc values in Terminal are the outcomes of a call; the locals of
\* a call that has ended are dead and are cleared.
\* ------------------------------------------------------------------------

\* The call ends: its locals die (result is what it returned)
End(p, outcome, ret) ==
    /\ pc' = [pc EXCEPT ![p] = outcome]
    /\ next_url' = [next_url EXCEPT ![p] = NullLink]
    /\ total_written' = [total_written EXCEPT ![p] = 0]
    /\ page_no' = [page_no EXCEPT ![p] = 0]
    /\ url' = [url EXCEPT ![p] = NullLink]
    /\ seen_urls' = [seen_urls EXCEPT ![p] = {}]
    /\ attempt' = [attempt EXCEPT ![p] = 0]
    /\ buf' = [buf EXCEPT ![p] = <<>>]
    /\ result' = [result EXCEPT ![p] = ret]

\* The log of a call's requests (kept when track is set)
ClearLog(p) ==
    /\ fetchlog' = [fetchlog EXCEPT ![p] = <<>>]
    /\ reqs' = [reqs EXCEPT ![p] = [g \in Pages |-> 0]]

LogRequest(p, page, received) ==
    /\ reqs' = IF track THEN [reqs EXCEPT ![p][page] = @ + 1] ELSE reqs
    /\ fetchlog' = IF track /\ received THEN [fetchlog EXCEPT ![p] = Append(@, page)]
                   ELSE fetchlog

\* a checkpoint file whose content json.load cannot read
DamagedCheckpoint == [exists |-> TRUE, next_link |-> NullLink, rows_written |-> 0, page_no |-> 0]

\* _load_checkpoint: the checkpoint dict if present and readable, else {}
_load_checkpoint == IF cp = DamagedCheckpoint THEN NoCheckpoint ELSE cp

\* cp.get("next_link") or base
ResumeLink(c) == IF c.exists /\ c.next_link # NullLink THEN c.next_link ELSE base

\* lines 152-170: a new call; resume if possible
Call(p) ==
    /\ pc[p] \in Terminal
    /\ calls < MaxCalls
    /\ calls' = calls + 1
    /\ LET c == _load_checkpoint IN
        /\ next_url' = [next_url EXCEPT ![p] = ResumeLink(c)]
        /\ total_written' = [total_written EXCEPT ![p] = IF c.exists THEN c.rows_written ELSE 0]
        /\ page_no' = [page_no EXCEPT ![p] = IF c.exists THEN c.page_no ELSE 0]
    /\ result' = [result EXCEPT ![p] = 0]
    /\ pc' = [pc EXCEPT ![p] = "lock"]
    /\ ClearLog(p)
    /\ client' = [client EXCEPT ![p] = "download"]
    /\ UNCHANGED <<nextPage, files, url, seen_urls, attempt, buf, faults, track, offline, pricing>>

\* Faulty variant: the lock file is opened without O_EXCL
_acquire_lock_no_excl(p) ==
    /\ pc[p] = "lock"
    /\ pc' = [pc EXCEPT ![p] = "open"]
    /\ lock' = TRUE
    /\ UNCHANGED <<nextPage, part, target, cp, locals, faults, calls, track, hist, offline, pricing>>

\* _acquire_lock: os.open(O_CREAT | O_EXCL); EEXIST raises RuntimeError
\* before the try block is entered
_acquire_lock(p) ==
    /\ pc[p] = "lock"
    /\ IF lock
       THEN /\ End(p, "refused", 0)
            /\ lock' = lock
       ELSE /\ pc' = [pc EXCEPT ![p] = "open"]
            /\ lock' = TRUE
            /\ UNCHANGED locals
    /\ UNCHANGED <<nextPage, part, target, cp, faults, calls, track, hist, offline, pricing>>

\* lines 193-204 for the link u: loop test, currency parameter,
\* repeated-link break; otherwise the first attempt on the page
LoopHead(p, u) ==
    IF u = NullLink \/ EnsureCurrency(u) \in seen_urls[p]
    THEN /\ pc' = [pc EXCEPT ![p] = "finalize"]
         /\ url' = [url EXCEPT ![p] = NullLink]
         /\ UNCHANGED <<seen_urls, attempt>>
    ELSE /\ url' = [url EXCEPT ![p] = EnsureCurrency(u)]
         /\ seen_urls' = [seen_urls EXCEPT ![p] = @ \cup {EnsureCurrency(u)}]
         /\ attempt' = [attempt EXCEPT ![p] = 1]
         /\ pc' = [pc EXCEPT ![p] = "get"]

\* lines 176-204: open the .part file in append mode, header when it is new
\* or empty; enter the loop at next_url
OpenPart(p) ==
    /\ pc[p] = "open"
    /\ part' = IF ~part.exists \/ (~part.hdr /\ part.rows = <<>>)
               THEN [exists |-> TRUE, hdr |-> TRUE, rows |-> <<>>]
               ELSE part
    /\ LoopHead(p, next_url[p])
    /\ next_url' = [next_url EXCEPT ![p] = NullLink]
    /\ UNCHANGED <<nextPage, target, cp, lock, total_written, page_no, buf, result, faults, calls, track, hist, offline, pricing>>

\* _release_lock in the finally clause
_release_lock == FALSE

\* Faulty variant: the failure path cleans the checkpoint up
GetFail_cleanup(p) ==
    /\ pc[p] = "get"
    /\ LogRequest(p, url[p].page, FALSE)
    /\ IF attempt[p] >= max_attempts
       THEN /\ End(p, "failed", 0)
            /\ lock' = FALSE
            /\ cp' = NoCheckpoint
       ELSE /\ attempt' = [attempt EXCEPT ![p] = @ + 1]
            /\ UNCHANGED <<pc, lock, cp, next_url, total_written, page_no, url,
                           seen_urls, buf, result>>
    /\ UNCHANGED <<nextPage, part, target, faults, calls, track, client, offline, pricing>>

\* lines 205-214, failing attempt: retry, or re-raise on the last attempt
\* (the with block closes the file, the finally clause releases the lock)
GetFail(p) ==
    /\ pc[p] = "get"
    /\ LogRequest(p, url[p].page, FALSE)
    /\ IF attempt[p] >= max_attempts
       THEN /\ End(p, "failed", 0)
            /\ lock' = _release_lock
       ELSE /\ attempt' = [attempt EXCEPT ![p] = @ + 1]
            /\ UNCHANGED <<pc, lock, next_url, total_written, page_no, url,
                           seen_urls, buf, result>>
    /\ UNCHANGED <<nextPage, part, target, cp, faults, calls, track, client, offline, pricing>>

\* lines 205-228, successful attempt: the page's positive-priced rows go to
\* the buffered writer
GetOk(p) ==
    /\ pc[p] = "get"
    /\ LogRequest(p, url[p].page, TRUE)
    /\ LET rows == PageRows(url[p].page) IN
        /\ buf' = [buf EXCEPT ![p] = rows]
        /\ page_no' = [page_no EXCEPT ![p] = @ + 1]
        /\ total_written' = [total_written EXCEPT ![p] = @ + Len(rows)]
    /\ attempt' = [attempt EXCEPT ![p] = 0]
    /\ pc' = [pc EXCEPT ![p] = "flush"]
    /\ UNCHANGED <<nextPage, files, next_url, url, seen_urls, result, faults, calls, track, client, offline, pricing>>

\* lines 230-232: force the page to disk
Flush(p) ==
    /\ pc[p] = "flush"
    /\ part' = [part EXCEPT !.exists = TRUE, !.rows = @ \o buf[p]]
    /\ buf' = [buf EXCEPT ![p] = <<>>]
    /\ pc' = [pc EXCEPT ![p] = "checkpoint"]
    /\ UNCHANGED <<nextPage, target, cp, lock, next_url, total_written, page_no, url,
                   seen_urls, attempt, result, faults, calls, track, hist, offline, pricing>>

\* lines 234-246 and 193-204: _save_checkpoint (atomic replace), then the
\* loop goes on with the next link
_save_checkpoint(p) ==
    /\ pc[p] = "checkpoint"
    /\ LET next_link == NextPageLink(url[p].page) IN
        /\ cp' = [exists |-> TRUE, next_link |-> next_link,
                  rows_written |-> total_written[p], page_no |-> page_no[p]]
        /\ LoopHead(p, next_link)
    /\ UNCHANGED <<nextPage, part, target, lock, next_url, total_written, page_no,
                   buf, result, faults, calls, track, hist, offline, pricing>>

\* lines 248-259: trailing newline (every line the writer wrote ends in one)
\* and os.replace(tmp_path, out_csv_path)
Replace(p) ==
    /\ pc[p] = "finalize"
    /\ part.exists
    /\ target' = part
    /\ part' = NoFile
    /\ pc' = [pc EXCEPT ![p] = "verify"]
    /\ UNCHANGED <<nextPage, cp, lock, locals, faults, calls, track, hist, offline, pricing>>

\* lines 261-276: verify print, remove the checkpoint, return total_written;
\* the finally clause releases the lock
RemoveCheckpoint(p) ==
    /\ pc[p] = "verify"
    /\ cp' = NoCheckpoint
    /\ End(p, "done", total_written[p])
    /\ lock' = _release_lock
    /\ UNCHANGED <<nextPage, part, target, faults, calls, track, hist, offline, pricing>>

\* The prefixes of the buffered rows
Prefixes(s) == {SubSeq(s, 1, n) : n \in 0..Len(s)}

\* An exception raised at the call's position (KeyboardInterrupt, OSError of
\* a write, ...): the with block closes the file, which flushes what the
\* row loop had buffered, and the finally clause releases the lock
Interrupt(p) ==
    /\ faults < MaxFaults
    /\ pc[p] \in InTry
    /\ faults' = faults + 1
    /\ End(p, "failed", 0)
    /\ lock' = _release_lock
    /\ \E w \in Prefixes(buf[p]) :
         part' = IF part.exists THEN [part EXCEPT !.rows = @ \o w] ELSE part
    /\ UNCHANGED <<nextPage, target, cp, calls, track, hist, offline, pricing>>

\* The process is killed (SIGKILL, power loss): nothing is cleaned up, the
\* lock file stays, and any prefix of the buffer may have reached the disk
Kill(p) ==
    /\ faults < MaxFaults
    /\ pc[p] \notin Terminal
    /\ faults' = faults + 1
    /\ End(p, "killed", 0)
    /\ \E w \in Prefixes(buf[p]) :
         part' = IF part.exists THEN [part EXCEPT !.rows = @ \o w] ELSE part
    /\ UNCHANGED <<nextPage, target, cp, lock, calls, track, hist, offline, pricing>>

Next ==
    \E p \in Procs :
        \/ Call(p)
        \/ _acquire_lock(p)
        \/ OpenPart(p)
        \/ GetFail(p)
        \/ GetOk(p)
        \/ Flush(p)
        \/ _save_checkpoint(p)
        \/ Replace(p)
        \/ RemoveCheckpoint(p)
        \/ Interrupt(p)
        \/ Kill(p)

Spec == Init /\ [][Next]_vars

\* The checkpoint file is damaged on disk while no download call is under
\* way (a torn sector, an editor, a partial copy of the cache directory)
DamageCheckpoint ==
    /\ \A p \in Procs : pc[p] \in Terminal
    /\ cp.exists
    /\ cp # DamagedCheckpoint
    /\ cp' = DamagedCheckpoint
    /\ UNCHANGED <<nextPage, part, target, lock, pc, locals, faults, calls, track, hist, offline, pricing>>

NextDamage ==
    \/ Next
    \/ DamageCheckpoint

\* the downloader with a checkpoint that may become unreadable
SpecDamage == Init /\ [][NextDamage]_vars

\* ------------------------------------------------------------------------
\* The offline filter interpreter (pricing/retail.py lines 289-357)
\* ------------------------------------------------------------------------
UpperLetters == <<"A", "B", "C", "D", "E", "F", "G", "H", "I", "J", "K", "L", "M", "N", "O", "P", "Q", "R", "S", "T", "U", "V", "W", "X", "Y", "Z">>
LowerLetters == <<"a", "b", "c", "d", "e", "f", "g", "h", "i", "j", "k", "l", "m", "n", "o", "p", "q", "r", "s", "t", "u", "v", "w", "x", "y", "z">>

LetterIndex(c, alphabet) == CHOOSE i \in 1..Len(alphabet) : alphabet[i] = c

\* str.lower() and str.upper(), character by character
LowerChar(c) ==
    IF \E i \in 1..Len(UpperLetters) : UpperLetters[i] = c
    THEN LowerLetters[LetterIndex(c, UpperLetters)] ELSE c
UpperChar(c) ==
    IF \E i \in 1..Len(LowerLetters) : LowerLetters[i] = c
    THEN UpperLetters[LetterIndex(c, LowerLetters)] ELSE c
Lower(s) == SubSeq([i \in 1..Len(s) |-> LowerChar(s[i])], 1, Len(s))
Upper(s) == SubSeq([i \in 1..Len(s) |-> UpperChar(s[i])], 1, Len(s))

IsSpace(c) == c = " "
IsWordChar(c) ==
    \/ \E i \in 1..Len(UpperLetters) : UpperLetters[i] = c \/ LowerLetters[i] = c
    \/ c \in {"0", "1", "2", "3", "4", "5", "6", "7", "8", "9", "_"}

\* s[i], or "" past the end
At(s, i) == IF i \in 1..Len(s) THEN s[i] ELSE ""

\* s[i:j] of Python with 1-based inclusive bounds, clipped to the text
Slice(s, i, j) == SubSeq(s, i, IF j > Len(s) THEN Len(s) ELSE j)

\* str.strip()
RECURSIVE LStrip(_)
LStrip(s) == IF s # <<>> /\ IsSpace(Head(s)) THEN LStrip(Tail(s)) ELSE s
RECURSIVE RStrip(_)
RStrip(s) == IF s # <<>> /\ IsSpace(s[Len(s)]) THEN RStrip(SubSeq(s, 1, Len(s) - 1)) ELSE s
Strip(s) == RStrip(LStrip(s))

\* val_l in text
Contains(sub, s) == \E i \in 1..(Len(s) + 1) : Slice(s, i, i + Len(sub) - 1) = sub

\* the first position from i on that is not a space / word character /
\* is a quote
RECURSIVE SkipSpaces(_, _)
SkipSpaces(s, i) == IF i <= Len(s) /\ IsSpace(s[i]) THEN SkipSpaces(s, i + 1) ELSE i
RECURSIVE SkipWord(_, _)
SkipWord(s, i) == IF i <= Len(s) /\ IsWordChar(s[i]) THEN SkipWord(s, i + 1) ELSE i
RECURSIVE SkipNonQuote(_, _)
SkipNonQuote(s, i) == IF i <= Len(s) /\ s[i] # "'" THEN SkipNonQuote(s, i + 1) ELSE i

tAnd == <<" ", "a", "n", "d">>
tEq == <<"e", "q">>
tContainsOpen == <<"c", "o", "n", "t", "a", "i", "n", "s", "(">>
tStartsWithOpen == <<"s", "t", "a", "r", "t", "s", "w", "i", "t", "h", "(">>
nServiceName == <<"s", "e", "r", "v", "i", "c", "e", "N", "a", "m", "e">>
nMeterName == <<"m", "e", "t", "e", "r", "N", "a", "m", "e">>
nCurrencyCode == <<"c", "u", "r", "r", "e", "n", "c", "y", "C", "o", "d", "e">>

NoMatch == [ok |-> FALSE, fld |-> <<>>, val |-> <<>>]

\* _EQ_RE.fullmatch(p):  \s*(\w+)\s+eq\s+'([^']*)'\s*   (IGNORECASE)
EqMatch(p) ==
    LET a == SkipSpaces(p, 1)
        b == SkipWord(p, a)
        c == SkipSpaces(p, b)
        d == SkipSpaces(p, c + 2)
        e == SkipNonQuote(p, d + 1)
        f == SkipSpaces(p, e + 1)
    IN IF /\ b > a
          /\ c > b
          /\ Lower(Slice(p, c, c + 1)) = tEq
          /\ d > c + 2
          /\ At(p, d) = "'"
          /\ At(p, e) = "'"
          /\ f = Len(p) + 1
       THEN [ok |-> TRUE, fld |-> SubSeq(p, a, b - 1), val |-> SubSeq(p, d + 1, e - 1)]
       ELSE NoMatch

\* _CONTAINS_RE.fullmatch(p):
\*   \s*contains\(\s*(\w+)\s*,\s*'([^']*)'\s*\)\s*   (IGNORECASE)
ContainsMatch(p) ==
    LET a == SkipSpaces(p, 1)
        b == SkipSpaces(p, a + 9)
        c == SkipWord(p, b)
        d == SkipSpaces(p, c)
        e == SkipSpaces(p, d + 1)
        f == SkipNonQuote(p, e + 1)
        g == SkipSpaces(p, f + 1)
        h == SkipSpaces(p, g + 1)
    IN IF /\ Lower(Slice(p, a, a + 8)) = tContainsOpen
          /\ c > b
          /\ At(p, d) = ","
          /\ At(p, e) = "'"
          /\ At(p, f) = "'"
          /\ At(p, g) = ")"
          /\ h = Len(p) + 1
       THEN [ok |-> TRUE, fld |-> SubSeq(p, b, c - 1), val |-> SubSeq(p, e + 1, f - 1)]
       ELSE NoMatch

\* lines 300-320: split at " and" outside parentheses
RECURSIVE SplitTopLevel(_, _, _, _, _)
SplitTopLevel(s, i, depth, buffer, parts) ==
    IF i > Len(s)
    THEN IF buffer # <<>> THEN Append(parts, Strip(buffer)) ELSE parts
    ELSE LET ch == s[i]
             dp == IF ch = "(" THEN depth + 1 ELSE IF ch = ")" THEN depth - 1 ELSE depth
         IN IF dp = 0 /\ Lower(Slice(s, i, i + 3)) = tAnd
            THEN SplitTopLevel(s, i + 4, dp, <<>>, Append(parts, Strip(buffer)))
            ELSE SplitTopLevel(s, i + 1, dp, Append(buffer, ch), parts)

\* lines 322-339: one predicate per part; an unknown clause accepts all
PredOf(part_text) ==
    LET m == EqMatch(part_text)
        n == ContainsMatch(part_text)
    IN IF m.ok THEN [kind |-> "eq", fld |-> m.fld, val_l |-> Lower(m.val)]
       ELSE IF n.ok THEN [kind |-> "contains", fld |-> n.fld, val_l |-> Lower(n.val)]
       ELSE [kind |-> "true", fld |-> <<>>, val_l |-> <<>>]

_parse_simple_filter(filter_expr) ==
    IF filter_expr = <<>>
    THEN <<[kind |-> "true", fld |-> <<>>, val_l |-> <<>>]>>
    ELSE LET parts == SplitTopLevel(filter_expr, 1, 0, <<>>, <<>>)
         IN [i \in 1..Len(parts) |-> PredOf(parts[i])]

\* str(row.get(fld) or "")
FieldText(row, fld) ==
    IF fld = nServiceName THEN row.serviceName
    ELSE IF fld = nMeterName THEN row.meterName
    ELSE IF fld = nCurrencyCode THEN row.currencyCode
    ELSE <<>>

\* the lambdas of lines 328, 334 and 337
PredHolds(pred, row) ==
    CASE pred.kind = "eq" -> Lower(FieldText(row, pred.fld)) = pred.val_l
      [] pred.kind = "contains" -> Contains(pred.val_l, Lower(FieldText(row, pred.fld)))
      [] OTHER -> TRUE

\* load_retail_csv: the data rows of the file, through clean_rows
load_retail_csv(file) == clean_rows(file.rows)

\* line 353: the row is skipped when its currency is set and differs
CurrencySkips(row, cur) == Upper(row.currencyCode) \notin {<<>>, cur} /\ cur # <<>>

RECURSIVE FilterRows(_, _, _)
FilterRows(rows, preds, cur) ==
    IF rows = <<>> THEN <<>>
    ELSE LET r == Head(rows)
             keep == /\ ~CurrencySkips(r, cur)
                     /\ \A i \in 1..Len(preds) : PredHolds(preds[i], r)
         IN (IF keep THEN <<r>> ELSE <<>>) \o FilterRows(Tail(rows), preds, cur)

\* lines 342-357
retail_fetch_items_offline(filter_expr, currency, file) ==
    FilterRows(load_retail_csv(file), _parse_simple_filter(filter_expr), Upper(currency))

\* ------------------------------------------------------------------------
\* The fetch loops that return the items of a query:
\* retail_fetch_items of pricing/retail.py (live path) and the older
\* retail_fetch_items of pricing_sources.py
\* ------------------------------------------------------------------------

\* pricing/retail.py lines 381-396: no offline path configured
LiveCall(p) ==
    /\ pc[p] \in Terminal
    /\ calls < MaxCalls
    /\ calls' = calls + 1
    /\ client' = [client EXCEPT ![p] = "live"]
    /\ ClearLog(p)
    /\ url' = [url EXCEPT ![p] = base]
    /\ seen_urls' = [seen_urls EXCEPT ![p] = {base}]
    /\ attempt' = [attempt EXCEPT ![p] = 1]
    /\ buf' = [buf EXCEPT ![p] = <<>>]
    /\ result' = [result EXCEPT ![p] = 0]
    /\ pc' = [pc EXCEPT ![p] = "live_get"]
    /\ UNCHANGED <<nextPage, files, next_url, total_written, page_no, faults, track, offline, pricing>>

\* pricing/retail.py lines 399-408, failing attempt
LiveGetFail(p) ==
    /\ pc[p] = "live_get"
    /\ LogRequest(p, url[p].page, FALSE)
    /\ IF attempt[p] >= max_attempts
       THEN End(p, "failed", 0)
       ELSE /\ attempt' = [attempt EXCEPT ![p] = @ + 1]
            /\ UNCHANGED <<pc, next_url, total_written, page_no, url, seen_urls, buf, result>>
    /\ UNCHANGED <<nextPage, files, faults, calls, track, client, offline, pricing>>

\* pricing/retail.py lines 399-413, successful attempt
LiveGetOk(p) ==
    /\ pc[p] = "live_get"
    /\ LogRequest(p, url[p].page, TRUE)
    /\ LET items == buf[p] \o Items(url[p].page)
           u == NextPageLink(url[p].page) IN
        IF u = NullLink \/ EnsureCurrency(u) \in seen_urls[p]
        THEN End(p, "done", Len(clean_rows(items)))
        ELSE /\ buf' = [buf EXCEPT ![p] = items]
             /\ url' = [url EXCEPT ![p] = EnsureCurrency(u)]
             /\ seen_urls' = [seen_urls EXCEPT ![p] = @ \cup {EnsureCurrency(u)}]
             /\ attempt' = [attempt EXCEPT ![p] = 1]
             /\ UNCHANGED <<pc, next_url, total_written, page_no, result>>
    /\ UNCHANGED <<nextPage, files, faults, calls, track, client, offline, pricing>>

\* pricing_sources.py lines 118-121
LegacyCall(p) ==
    /\ pc[p] \in Terminal
    /\ calls < MaxCalls
    /\ calls' = calls + 1
    /\ client' = [client EXCEPT ![p] = "legacy"]
    /\ ClearLog(p)
    /\ url' = [url EXCEPT ![p] = base]
    /\ buf' = [buf EXCEPT ![p] = <<>>]
    /\ result' = [result EXCEPT ![p] = 0]
    /\ pc' = [pc EXCEPT ![p] = "legacy_get"]
    /\ UNCHANGED <<nextPage, files, next_url, total_written, page_no, seen_urls, attempt,
                   faults, track, offline, pricing>>

\* pricing_sources.py lines 122-123: raise_for_status raises
LegacyGetFail(p) ==
    /\ pc[p] = "legacy_get"
    /\ LogRequest(p, url[p].page, FALSE)
    /\ End(p, "failed", 0)
    /\ UNCHANGED <<nextPage, files, faults, calls, track, client, offline, pricing>>

\* pricing_sources.py lines 122-127: the loop goes on while the link is set
LegacyGetOk(p) ==
    /\ pc[p] = "legacy_get"
    /\ Len(fetchlog[p]) < MaxLegacyFetches
    /\ LogRequest(p, url[p].page, TRUE)
    /\ LET items == buf[p] \o Items(url[p].page)
           u == NextPageLink(url[p].page) IN
        IF u = NullLink
        THEN End(p, "done", Len(items))
        ELSE /\ buf' = [buf EXCEPT ![p] = items]
             /\ url' = [url EXCEPT ![p] = u]
             /\ UNCHANGED <<pc, next_url, total_written, page_no, seen_urls, attempt, result>>
    /\ UNCHANGED <<nextPage, files, faults, calls, track, client, offline, pricing>>

\* Any chain of links the server may return, one caller, requests logged
InitFetch ==
    /\ nextPage \in [Pages -> 0..NPages]
    /\ part = NoFile
    /\ target = NoFile
    /\ cp = NoCheckpoint
    /\ lock = FALSE
    /\ pc = [p \in Procs |-> "idle"]
    /\ next_url = [p \in Procs |-> NullLink]
    /\ total_written = [p \in Procs |-> 0]
    /\ page_no = [p \in Procs |-> 0]
    /\ url = [p \in Procs |-> NullLink]
    /\ seen_urls = [p \in Procs |-> {}]
    /\ attempt = [p \in Procs |-> 0]
    /\ buf = [p \in Procs |-> <<>>]
    /\ result = [p \in Procs |-> 0]
    /\ faults = 0
    /\ calls = 0
    /\ track = TRUE
    /\ client = [p \in Procs |-> "download"]
    /\ fetchlog = [p \in Procs |-> <<>>]
    /\ reqs = [p \in Procs |-> [g \in Pages |-> 0]]
    /\ o_pc = "idle"
    /\ o_clauses = <<>>
    /\ o_joiner = <<>>
    /\ o_currency = <<>>
    /\ o_out = <<>>
    /\ PricingIdle

NextFetch ==
    \/ Call(1)
    \/ _acquire_lock(1)
    \/ OpenPart(1)
    \/ GetFail(1)
    \/ GetOk(1)
    \/ Flush(1)
    \/ _save_checkpoint(1)
    \/ Replace(1)
    \/ RemoveCheckpoint(1)
    \/ LiveCall(1)
    \/ LiveGetFail(1)
    \/ LiveGetOk(1)
    \/ LegacyCall(1)
    \/ LegacyGetFail(1)
    \/ LegacyGetOk(1)

SpecFetch == InitFetch /\ [][NextFetch]_vars

\* ------------------------------------------------------------------------
\* Offline queries against a cache file
\* ------------------------------------------------------------------------

\* a row as the downloader leaves it in the file
CacheRow(id, svc, meter, cur) ==
    [meterId |-> id, serviceName |-> svc, meterName |-> meter, currencyCode |-> cur,
     retailPrice |-> Num(1), unitPrice |-> Num(1)]

tVM == <<"V", "M">>
tVmLower == <<"v", "m">>
tRandD == <<"R", " ", "a", "n", "d", " ", "D">>
tParen == <<"D", " ", "(", "x">>
tFoo == <<"F", "o", "o">>
tFooLower == <<"f", "o", "o">>
tBar == <<"B", "a", "r">>
tFo == <<"f", "o">>
tAudLower == <<"a", "u", "d">>

CacheFile(rows) == [exists |-> TRUE, hdr |-> TRUE, rows |-> rows]

CacheFiles ==
    {CacheFile(<<CacheRow(1, tVM, tFoo, tAUD),
                 CacheRow(2, tVmLower, tBar, tAudLower),
                 CacheRow(3, tRandD, tFoo, tAUD),
                 CacheRow(4, tVM, tFoo, tUSD),
                 CacheRow(5, tStorage, tFooLower, <<>>)>>),
     CacheFile(<<CacheRow(6, tParen, tBar, tAUD),
                 CacheRow(3, tRandD, tFoo, tAUD),
                 CacheRow(7, tStorage, tBar, tUSD)>>)}

\* the clauses a caller combines into a filter
EqClause(fld, val) == [kind |-> "eq", fld |-> fld, val |-> val]
ContainsClause(fld, val) == [kind |-> "contains", fld |-> fld, val |-> val]
\* clauses of OData the interpreter has no pattern for
NeClause(fld, val) == [kind |-> "ne", fld |-> fld, val |-> val]
StartsWithClause(fld, val) == [kind |-> "startswith", fld |-> fld, val |-> val]

Clauses ==
    {EqClause(nServiceName, tVmLower),
     EqClause(nServiceName, tRandD),
     EqClause(nServiceName, tParen),
     EqClause(nMeterName, tBar),
     ContainsClause(nMeterName, tFo),
     ContainsClause(nServiceName, tAnd),
     NeClause(nServiceName, tVM),
     NeClause(nServiceName, tParen),
     StartsWithClause(nMeterName, tFo)}

MaxClauses == 2
Filters == UNION {[1..n -> Clauses] : n \in 1..MaxClauses}
Joiners == {<<" ", "a", "n", "d", " ">>, <<" ", "A", "N", "D", " ">>}
Currencies == {tAUD, tUSD, <<>>}

\* the text of a clause and of a filter
ClauseText(c) ==
    CASE c.kind = "eq" -> c.fld \o <<" ", "e", "q", " ", "'">> \o c.val \o <<"'">>
      [] c.kind = "ne" -> c.fld \o <<" ", "n", "e", " ", "'">> \o c.val \o <<"'">>
      [] c.kind = "contains" -> tContainsOpen \o c.fld \o <<",", "'">> \o c.val \o <<"'", ")">>
      [] OTHER -> tStartsWithOpen \o c.fld \o <<",", "'">> \o c.val \o <<"'", ")">>

RECURSIVE FilterText(_, _)
FilterText(clauses, joiner) ==
    IF Len(clauses) = 1 THEN ClauseText(clauses[1])
    ELSE ClauseText(clauses[1]) \o joiner \o FilterText(Tail(clauses), joiner)

\* One query: retail_fetch_items_offline on the cache file
OfflineFetch ==
    /\ o_pc = "idle"
    /\ target.exists
    /\ \E f \in Filters : \E j \in Joiners : \E c \in Currencies :
        /\ o_clauses' = f
        /\ o_joiner' = j
        /\ o_currency' = c
        /\ o_out' = retail_fetch_items_offline(FilterText(f, j), c, target)
    /\ o_pc' = "fetched"
    /\ UNCHANGED <<nextPage, files, pc, locals, faults, calls, track, hist, pricing>>

InitOffline ==
    /\ nextPage = LinearLinks
    /\ part = NoFile
    /\ target \in CacheFiles
    /\ cp = NoCheckpoint
    /\ lock = FALSE
    /\ pc = [p \in Procs |-> "idle"]
    /\ next_url = [p \in Procs |-> NullLink]
    /\ total_written = [p \in Procs |-> 0]
    /\ page_no = [p \in Procs |-> 0]
    /\ url = [p \in Procs |-> NullLink]
    /\ seen_urls = [p \in Procs |-> {}]
    /\ attempt = [p \in Procs |-> 0]
    /\ buf = [p \in Procs |-> <<>>]
    /\ result = [p \in Procs |-> 0]
    /\ faults = 0
    /\ calls = 0
    /\ track = FALSE
    /\ client = [p \in Procs |-> "download"]
    /\ fetchlog = [p \in Procs |-> <<>>]
    /\ reqs = [p \in Procs |-> [g \in Pages |-> 0]]
    /\ o_pc = "idle"
    /\ o_clauses = <<>>
    /\ o_joiner = <<>>
    /\ o_currency = <<>>
    /\ o_out = <<>>
    /\ PricingIdle

NextOffline == OfflineFetch

SpecOffline == InitOffline /\ [][NextOffline]_vars

\* ------------------------------------------------------------------------
\* The negotiated price index: normalise_enterprise_rows and
\* enterprise_lookup of pricing/enterprise.py, and the older
\* normalise_enterprise_rows of pricing_sources.py
\* ------------------------------------------------------------------------

MaxSheetRows == 3

tX == <<"X">>
tXPadded == <<" ", "X">>
tY == <<"Y">>
tZ == <<"Z">>
tRegion == <<"r">>
tOtherRegion == <<"s">>
tHour == <<"h">>

\* a cleaned row of the sheet: clean_rows has mirrored the price
SheetRow(svc, sku, region, uom, price) ==
    [serviceName |-> svc, skuName |-> sku, armRegionName |-> region, unitOfMeasure |-> uom,
     unitPrice |-> price, retailPrice |-> price]

\* prices are in thousandths of the currency unit
SheetRows ==
    {SheetRow(tX, tY, tRegion, tHour, Num(2000)),
     SheetRow(tX, tY, tRegion, tHour, Num(1500)),
     SheetRow(tX, tY, tRegion, tHour, Num(0)),
     SheetRow(tX, tY, tRegion, tHour, Num(-1000)),
     SheetRow(tX, tY, tRegion, tHour, BadPrice),
     SheetRow(tXPadded, tY, tRegion, tHour, Num(1000)),
     SheetRow(tX, tY, <<>>, tHour, Num(3000)),
     SheetRow(tX, tY, <<>>, tHour, NoPrice)}

Sheets == UNION {[1..n -> SheetRows] : n \in 0..MaxSheetRows}

\* enterprise.py lines 192-195 and 205: the key of a row
KeyOf(r) == <<Strip(r.serviceName), Strip(r.skuName), Strip(r.armRegionName), Strip(r.unitOfMeasure)>>

\* enterprise.py line 197: r.get("unitPrice") or r.get("retailPrice") or "0",
\* then decimal()
SheetPrice(r) ==
    IF r.unitPrice.k # "none" THEN decimal(r.unitPrice)
    ELSE IF r.retailPrice.k # "none" THEN decimal(r.retailPrice)
    ELSE 0

\* out[key] = px
Put(out, key, px) == [k \in DOMAIN out \cup {key} |-> IF k = key THEN px ELSE out[k]]

\* Faulty variant: the price of the last row with the key is kept
KeepLowest_last(out, key, px) == Put(out, key, px)

\* enterprise.py lines 206-210
KeepLowest(out, key, px) ==
    IF key \in DOMAIN out
    THEN IF px < out[key] THEN Put(out, key, px) ELSE out
    ELSE Put(out, key, px)

\* enterprise.py lines 189-212, over the rows from the i-th on
RECURSIVE NormaliseFrom(_, _, _)
NormaliseFrom(rows, i, out) ==
    IF i > Len(rows) THEN out
    ELSE LET px == SheetPrice(rows[i])
         IN IF px <= 0
            THEN NormaliseFrom(rows, i + 1, out)
            ELSE NormaliseFrom(rows, i + 1, KeepLowest(out, KeyOf(rows[i]), px))

normalise_enterprise_rows(rows) == NormaliseFrom(rows, 1, <<>>)

\* pricing_sources.py lines 88-100: every row stores d(price) under its key
RECURSIVE LegacyNormaliseFrom(_, _, _)
LegacyNormaliseFrom(rows, i, out) ==
    IF i > Len(rows) THEN out
    ELSE LegacyNormaliseFrom(rows, i + 1, Put(out, KeyOf(rows[i]), SheetPrice(rows[i])))

legacy_normalise_enterprise_rows(rows) == LegacyNormaliseFrom(rows, 1, <<>>)

\* Faulty variant: on a miss any region of the same service, sku and unit is taken
enterprise_lookup_any_region(ent, service, sku, region, uom) ==
    LET with_region == <<service, sku, region, uom>>
        others == {k \in DOMAIN ent : k[1] = service /\ k[2] = sku /\ k[4] = uom}
    IN IF with_region \in DOMAIN ent
       THEN [consulted |-> <<with_region>>, ret |-> Found(ent[with_region])]
       ELSE IF others # {}
       THEN LET k == CHOOSE k \in others : TRUE
            IN [consulted |-> <<with_region, k>>, ret |-> Found(ent[k])]
       ELSE [consulted |-> <<with_region>>, ret |-> NotFound]

\* enterprise.py lines 157-168: the keys tested and the value returned
enterprise_lookup(ent, service, sku, region, uom) ==
    LET with_region == <<service, sku, region, uom>>
        without_region == <<service, sku, <<>>, uom>>
    IN IF DOMAIN ent = {}
       THEN [consulted |-> <<>>, ret |-> NotFound]
       ELSE IF with_region \in DOMAIN ent
       THEN [consulted |-> <<with_region>>, ret |-> Found(ent[with_region])]
       ELSE [consulted |-> <<with_region, without_region>>,
             ret |-> IF without_region \in DOMAIN ent THEN Found(ent[without_region]) ELSE NotFound]

\* price_model.py line 175, 180 or 186: the index is built from the sheet
BuildIndex ==
    /\ e_pc = "idle"
    /\ ent_prices' = normalise_enterprise_rows(ent_rows)
    /\ e_builder' = "enterprise"
    /\ e_pc' = "built"
    /\ UNCHANGED <<ent_rows, e_query, e_consulted, e_found>>
    /\ UNCHANGED <<nextPage, files, pc, locals, faults, calls, track, hist, offline, resolver, program>>

\* pricing_sources.py load_enterprise_csv: the older builder
LegacyBuildIndex ==
    /\ e_pc = "idle"
    /\ ent_prices' = legacy_normalise_enterprise_rows(ent_rows)
    /\ e_builder' = "legacy"
    /\ e_pc' = "built"
    /\ UNCHANGED <<ent_rows, e_query, e_consulted, e_found>>
    /\ UNCHANGED <<nextPage, files, pc, locals, faults, calls, track, hist, offline, resolver, program>>

LookupKeys == {<<tX, tY, g, tHour>> : g \in {tRegion, tOtherRegion, <<>>}} \cup {<<tX, tZ, tRegion, tHour>>}

\* a handler looks a key up
Lookup ==
    /\ e_pc = "built"
    /\ \E q \in LookupKeys :
        LET got == enterprise_lookup(ent_prices, q[1], q[2], q[3], q[4])
        IN /\ e_query' = q
           /\ e_consulted' = got.consulted
           /\ e_found' = got.ret
    /\ e_pc' = "looked"
    /\ UNCHANGED <<ent_rows, ent_prices, e_builder>>
    /\ UNCHANGED <<nextPage, files, pc, locals, faults, calls, track, hist, offline, resolver, program>>

\* the downloader and the offline query at rest
DownloaderIdle ==
    /\ nextPage = LinearLinks
    /\ part = NoFile
    /\ target = NoFile
    /\ cp = NoCheckpoint
    /\ lock = FALSE
    /\ pc = [p \in Procs |-> "idle"]
    /\ next_url = [p \in Procs |-> NullLink]
    /\ total_written = [p \in Procs |-> 0]
    /\ page_no = [p \in Procs |-> 0]
    /\ url = [p \in Procs |-> NullLink]
    /\ seen_urls = [p \in Procs |-> {}]
    /\ attempt = [p \in Procs |-> 0]
    /\ buf = [p \in Procs |-> <<>>]
    /\ result = [p \in Procs |-> 0]
    /\ faults = 0
    /\ calls = 0
    /\ track = FALSE
    /\ client = [p \in Procs |-> "download"]
    /\ fetchlog = [p \in Procs |-> <<>>]
    /\ reqs = [p \in Procs |-> [g \in Pages |-> 0]]

OfflineIdle ==
    /\ o_pc = "idle"
    /\ o_clauses = <<>>
    /\ o_joiner = <<>>
    /\ o_currency = <<>>
    /\ o_out = <<>>

\* any sheet
InitIndex ==
    /\ DownloaderIdle
    /\ OfflineIdle
    /\ ent_rows \in Sheets
    /\ ent_prices = <<>>
    /\ e_pc = "idle"
    /\ e_builder = "none"
    /\ e_query = NoKey
    /\ e_consulted = <<>>
    /\ e_found = NotFound
    /\ ResolverIdle
    /\ ProgramIdle

NextIndex ==
    \/ BuildIndex
    \/ LegacyBuildIndex
    \/ Lookup

SpecIndex == InitIndex /\ [][NextIndex]_vars

\* ------------------------------------------------------------------------
\* Pricing one component: price_by_service of helpers/pricing.py and
\* price_vm of handlers/vm.py, over the negotiated index and the retail
\* catalog
\* ------------------------------------------------------------------------

MaxCatalogRows == 2

tD4 == <<"D", "4">>
tD8 == <<"D", "8">>
tD4s == <<"D", "4", "s">>
tAE == <<"a", "e">>
tWE == <<"w", "e">>
t1Hour == <<"1", " ", "H", "o", "u", "r">>
t1GB == <<"1", " ", "G", "B">>
tConsumption == <<"C", "o", "n", "s", "u", "m", "p", "t", "i", "o", "n">>
tDevTestConsumption == <<"D", "e", "v", "T", "e", "s", "t">> \o tConsumption
tReservation == <<"R", "e", "s", "e", "r", "v", "a", "t", "i", "o", "n">>
tLinux == <<"L", "i", "n", "u", "x">>
tWindows == <<"W", "i", "n", "d", "o", "w", "s">>
tLin == <<"l", "i", "n">>

\* a pay-as-you-go row of the retail catalog, prices in thousandths
RetailRow(id, svc, product, sku, region, uom, price) ==
    [meterId |-> id, serviceName |-> svc, productName |-> product, skuName |-> sku,
     armSkuName |-> sku, meterName |-> <<>>, armRegionName |-> region, unitOfMeasure |-> uom,
     retailPrice |-> price, priceType |-> tConsumption, type |-> tConsumption]

CatalogRows ==
    {RetailRow(1, tVM, <<>>, tD4, tAE, t1Hour, Num(384)),
     RetailRow(2, tVM, tWindows, tD4, tAE, t1Hour, Num(768)),
     RetailRow(3, tVM, <<>>, tD4, <<>>, t1Hour, Num(500)),
     RetailRow(4, tVM, <<>>, tD4, tWE, t1Hour, Num(600)),
     RetailRow(5, tVM, <<>>, tD8, tAE, t1Hour, Num(900)),
     RetailRow(6, tVM, <<>>, tD4, tAE, t1GB, Num(50)),
     RetailRow(7, tVM, <<>>, tD4, tAE, t1Hour, Num(0)),
     RetailRow(8, tStorage, <<>>, tD4, tAE, t1Hour, Num(100)),
     RetailRow(9, tVM, <<>>, tD4s, tAE, t1Hour, Num(700))}

Catalogs == UNION {[1..n -> CatalogRows] : n \in 0..MaxCatalogRows}

\* the negotiated sheets a run may have loaded
ResolverSheets ==
    {<<>>,
     <<SheetRow(tVM, tD4, tAE, t1Hour, Num(2500))>>,
     <<SheetRow(tVM, tD4, <<>>, t1Hour, Num(2000))>>}

\* the components of a bill of materials
Component(os, qty, hours) ==
    [service |-> tVM, sku |-> tD4, region |-> tAE, uom |-> t1Hour, os |-> os,
     qty |-> qty, hours |-> hours]

Components == {Component(os, qty, hours) : os \in {tLinux, <<>>}, qty \in {2, 4}, hours \in {1, 730}}

\* helpers/csv.py arm_region: strip, lower, remove the spaces
RECURSIVE RemoveSpaces(_)
RemoveSpaces(t) ==
    IF t = <<>> THEN <<>>
    ELSE IF Head(t) = " " THEN RemoveSpaces(Tail(t))
    ELSE <<Head(t)>> \o RemoveSpaces(Tail(t))

arm_region(region_str) == RemoveSpaces(Lower(Strip(region_str)))

\* i.get(name) or ""
RowField(i, name) ==
    CASE name = "serviceName" -> i.serviceName
      [] name = "productName" -> i.productName
      [] name = "skuName" -> i.skuName
      [] name = "armSkuName" -> i.armSkuName
      [] name = "meterName" -> i.meterName
      [] name = "armRegionName" -> i.armRegionName
      [] name = "unitOfMeasure" -> i.unitOfMeasure
      [] name = "priceType" -> i.priceType
      [] OTHER -> <<>>

\* helpers/csv.py _price and _is_positive
_price(i) == IF i.retailPrice.k = "none" THEN 0 ELSE decimal(i.retailPrice)
_is_positive(i) == _price(i) > 0

\* helpers/csv.py _eq
_eq(i, key, val) == Lower(RowField(i, key)) = Lower(val)

\* helpers/csv.py _text
_text(i) ==
    Lower(i.serviceName \o <<" ">> \o i.productName \o <<" ">> \o i.skuName \o <<" ">>
          \o i.meterName \o <<" ">> \o i.armSkuName)

\* helpers/csv.py lines 245-301
filter_rows(items, required_equals, required_uom, must_contain, allowed_price_types, region_hint) ==
    LET tokens == SelectSeq([n \in 1..Len(must_contain) |-> Lower(must_contain[n])], LAMBDA t : t # <<>>)
        uom_l == Lower(required_uom)
        arm_region_l == Lower(arm_region(region_hint))
        allowed == {Lower(t) : t \in allowed_price_types}
    IN SelectSeq(items, LAMBDA i :
        /\ _is_positive(i)
        /\ \A n \in 1..Len(required_equals) : _eq(i, required_equals[n][1], required_equals[n][2])
        /\ (allowed_price_types # {} => (Lower(i.priceType) \in allowed \/ Lower(i.type) \in allowed))
        /\ ~(required_uom # <<>> /\ Lower(i.unitOfMeasure) # uom_l)
        /\ (region_hint # <<>> => ~(Lower(i.armRegionName) # <<>> /\ Lower(i.armRegionName) # arm_region_l))
        /\ \A n \in 1..Len(tokens) : Contains(tokens[n], _text(i)))

\* helpers/csv.py lines 198-212: stable sort, the region first, then the
\* rows without region, then the others
prefer_region(rows, region) ==
    LET arm_l == Lower(arm_region(region))
        keyfn(r) == IF Lower(r.armRegionName) = arm_l THEN 0
                    ELSE IF Lower(r.armRegionName) = <<>> THEN 1 ELSE 2
    IN SelectSeq(rows, LAMBDA r : keyfn(r) = 0) \o SelectSeq(rows, LAMBDA r : keyfn(r) = 1)
        \o SelectSeq(rows, LAMBDA r : keyfn(r) = 2)

\* helpers/csv.py lines 215-217; <<>> stands for None
pick_first_row(rows) == IF rows = <<>> THEN <<>> ELSE <<rows[1]>>

\* helpers/csv.py lines 61-67: the key of a row in dedup_merge
DedupKey(r) ==
    IF r.meterId # 0 THEN [id |-> r.meterId, alt |-> <<>>]
    ELSE [id |-> 0, alt |-> <<r.serviceName, r.skuName, r.meterName, r.unitOfMeasure, r.armRegionName>>]

RECURSIVE DedupFrom(_, _, _)
DedupFrom(rows, seen, out) ==
    IF rows = <<>> THEN out
    ELSE IF DedupKey(Head(rows)) \in seen THEN DedupFrom(Tail(rows), seen, out)
    ELSE DedupFrom(Tail(rows), seen \cup {DedupKey(Head(rows))}, Append(out, Head(rows)))

RECURSIVE Concat(_)
Concat(lists) == IF lists = <<>> THEN <<>> ELSE Head(lists) \o Concat(Tail(lists))

\* helpers/csv.py lines 48-73
dedup_merge(lists) == DedupFrom(Concat(lists), {}, <<>>)

\* a filter "f1 eq 'v1' and f2 eq 'v2' ..." as the list of its clauses
EqFilter(pairs) == pairs

\* the rows of a source that a filter of eq clauses selects
Select(rows, fexpr, ignore_case) ==
    SelectSeq(rows, LAMBDA i : \A n \in 1..Len(fexpr) :
        IF ignore_case THEN _eq(i, fexpr[n][1], fexpr[n][2])
        ELSE RowField(i, fexpr[n][1]) = fexpr[n][2])

\* pricing/retail.py search_saved_retail_items: the rows of the saved pages
\* that the filter selects
search_saved_retail_items(fexpr) == IF dumped THEN Select(catalog, fexpr, TRUE) ELSE <<>>

\* pricing/retail.py retail_fetch_items_live: the rows the API returns for
\* the filter
retail_fetch_items_live(fexpr) == Select(catalog, fexpr, FALSE)

\* pricing_sources.py lines 118-127 with the server applying $filter
retail_fetch_items(fexpr) == Select(catalog, fexpr, FALSE)

\* helpers/pricing.py lines 74-82
ServiceFilters(service, product, arm) ==
    <<EqFilter(<<<<"serviceName", service>>, <<"armRegionName", arm>>>>),
      EqFilter(<<<<"serviceName", service>>>>)>>
    \o (IF product # <<>>
        THEN <<EqFilter(<<<<"productName", product>>, <<"armRegionName", arm>>>>),
               EqFilter(<<<<"productName", product>>>>)>>
        ELSE <<>>)

\* the non-empty answers of a source to the filters, in order
NonEmpty(lists) == SelectSeq(lists, LAMBDA l : l # <<>>)

\* Faulty variant: the unit price is cut to cents before it is multiplied
Total_cents(unit, qty, hours) == ((unit \div 10) * 10) * qty * hours

\* helpers/pricing.py lines 55 and 160, handlers/vm.py line 85
Total(unit, qty, hours) == unit * qty * hours

\* handlers/vm.py lines 16-18
has_os(i, os_lower) ==
    \E t \in {i.meterName, i.productName, i.skuName} : Contains(os_lower, Lower(t))

FirstOf(rows, Test(_)) ==
    LET hit == SelectSeq(rows, Test) IN IF hit = <<>> THEN <<>> ELSE <<hit[1]>>

\* handlers/vm.py lines 9-36; <<>> stands for None
_pick_vm_item(items, os_filter, prefer_uom) ==
    LET os_lower == Lower(os_filter)
        a == FirstOf(items, LAMBDA i : i.unitOfMeasure = prefer_uom /\ has_os(i, os_lower) /\ _price(i) > 0)
        b == FirstOf(items, LAMBDA i : has_os(i, os_lower) /\ _price(i) > 0)
        c == FirstOf(items, LAMBDA i : i.unitOfMeasure = prefer_uom /\ _price(i) > 0)
        e == FirstOf(items, LAMBDA i : _price(i) > 0)
    IN IF items = <<>> THEN <<>>
       ELSE IF a # <<>> THEN a
       ELSE IF b # <<>> THEN b
       ELSE IF c # <<>> THEN c
       ELSE IF e # <<>> THEN e
       ELSE <<items[1]>>

\* handlers/vm.py lines 38-56
_fallback_vm_items(sku, arm) ==
    LET items == retail_fetch_items(EqFilter(<<<<"serviceName", tVM>>, <<"armRegionName", arm>>,
                                               <<"priceType", tConsumption>>>>))
        sku_l == Lower(sku)
        narrowed == SelectSeq(items, LAMBDA i :
            \E t \in {i.armSkuName, i.skuName, i.productName, i.meterName} : Contains(sku_l, Lower(t)))
    IN IF items = <<>> THEN <<>> ELSE IF narrowed # <<>> THEN narrowed ELSE items

resolverRest == <<nextPage, files, pc, locals, faults, calls, track, hist, offline, index, program>>

\* the handler returns (total, desc); desc is the one template of the
\* handler, "<what> @<unit> x <qty> x <hours>", whatever the unit price
Return(unit, qty, hours) ==
    /\ r_ret' = [unit |-> unit, total |-> Total(unit, qty, hours), desc |-> "unit_qty_hours",
                 error |-> FALSE]
    /\ r_pc' = "returned"

\* price_model.py line 349: the handler of the component's type is called
PriceComponent ==
    /\ r_pc = "idle"
    /\ \E h \in {"service", "vm"} : \E c \in Components :
        /\ r_handler' = h
        /\ r_comp' = c
    /\ r_pc' = "enterprise"
    /\ UNCHANGED <<catalog, dumped, r_log, r_items, r_ret>>
    /\ UNCHANGED resolverRest

\* Faulty variant: the retail source is asked whatever the index answered
ServiceEnterprise_no_return ==
    /\ r_pc = "enterprise"
    /\ r_handler = "service"
    /\ r_log' = Append(r_log, "negotiated")
    /\ r_pc' = "saved"
    /\ UNCHANGED <<catalog, dumped, r_handler, r_comp, r_items, r_ret>>
    /\ UNCHANGED resolverRest

\* helpers/pricing.py lines 52-71
ServiceEnterprise ==
    /\ r_pc = "enterprise"
    /\ r_handler = "service"
    /\ r_log' = Append(r_log, "negotiated")
    /\ LET ent == enterprise_lookup(ent_prices, r_comp.service, r_comp.sku, r_comp.region, r_comp.uom).ret
       IN IF ent.found
          THEN Return(decimal(Num(ent.px)), r_comp.qty, r_comp.hours)
          ELSE r_pc' = "saved" /\ UNCHANGED r_ret
    /\ UNCHANGED <<catalog, dumped, r_handler, r_comp, r_items>>
    /\ UNCHANGED resolverRest

\* helpers/pricing.py lines 84-103
ServiceSaved ==
    /\ r_pc = "saved"
    /\ r_log' = Append(r_log, "saved")
    /\ LET filters == ServiceFilters(r_comp.service, <<>>, arm_region(r_comp.region))
           lists_from_saved == NonEmpty([n \in 1..Len(filters) |-> search_saved_retail_items(filters[n])])
       IN IF lists_from_saved # <<>>
          THEN r_items' = dedup_merge(lists_from_saved) /\ r_pc' = "select"
          ELSE r_pc' = "live" /\ UNCHANGED r_items
    /\ UNCHANGED <<catalog, dumped, r_handler, r_comp, r_ret>>
    /\ UNCHANGED resolverRest

\* helpers/pricing.py lines 104-117
ServiceLive ==
    /\ r_pc = "live"
    /\ r_log' = Append(r_log, "live")
    /\ LET filters == ServiceFilters(r_comp.service, <<>>, arm_region(r_comp.region))
           lists_from_live == NonEmpty([n \in 1..Len(filters) |-> retail_fetch_items_live(filters[n])])
       IN r_items' = IF lists_from_live # <<>> THEN dedup_merge(lists_from_live) ELSE <<>>
    /\ r_pc' = "select"
    /\ UNCHANGED <<catalog, dumped, r_handler, r_comp, r_ret>>
    /\ UNCHANGED resolverRest

\* handlers/governance.py line 28: must_contain=[sku.lower()] if sku else None
MustContain(sku) == IF sku # <<>> THEN <<Lower(sku)>> ELSE <<>>

\* helpers/pricing.py lines 126-175
ServiceSelect ==
    /\ r_pc = "select"
    /\ LET rows == prefer_region(
                      filter_rows(r_items, <<<<"serviceName", r_comp.service>>>>, r_comp.uom,
                                  MustContain(r_comp.sku),
                                  {tConsumption, tDevTestConsumption, tReservation}, r_comp.region),
                      r_comp.region)
           row == pick_first_row(rows)
           unit == IF row # <<>> THEN _price(row[1]) ELSE 0
       IN Return(unit, r_comp.qty, r_comp.hours)
    /\ UNCHANGED <<catalog, dumped, r_handler, r_comp, r_log, r_items>>
    /\ UNCHANGED resolverRest

\* handlers/vm.py lines 59-65 and 80-85
VmEnterprise ==
    /\ r_pc = "enterprise"
    /\ r_handler = "vm"
    /\ r_log' = Append(r_log, "negotiated")
    /\ LET ent == enterprise_lookup(ent_prices, tVM, r_comp.sku, r_comp.region, t1Hour).ret
       IN IF ent.found
          THEN Return(ent.px, r_comp.hours, r_comp.qty)
          ELSE r_pc' = "vm_fetch" /\ UNCHANGED r_ret
    /\ UNCHANGED <<catalog, dumped, r_handler, r_comp, r_items>>
    /\ UNCHANGED resolverRest

\* handlers/vm.py lines 66-75
VmFetch ==
    /\ r_pc = "vm_fetch"
    /\ r_log' = Append(r_log, "live")
    /\ LET arm == arm_region(r_comp.region)
           items == retail_fetch_items(EqFilter(<<<<"serviceName", tVM>>, <<"armSkuName", r_comp.sku>>,
                                                  <<"armRegionName", arm>>, <<"priceType", tConsumption>>>>))
       IN r_items' = IF items = <<>> THEN _fallback_vm_items(r_comp.sku, arm) ELSE items
    /\ r_pc' = "vm_pick"
    /\ UNCHANGED <<catalog, dumped, r_handler, r_comp, r_ret>>
    /\ UNCHANGED resolverRest

\* handlers/vm.py lines 61 and 76-85
VmPick ==
    /\ r_pc = "vm_pick"
    /\ LET os_filter == IF Slice(Lower(r_comp.os), 1, 3) = tLin THEN tLinux ELSE tWindows
           row == _pick_vm_item(r_items, os_filter, t1Hour)
       IN IF row = <<>>
          THEN r_ret' = [unit |-> 0, total |-> 0, desc |-> "none", error |-> TRUE] /\ r_pc' = "raised"
          ELSE Return(_price(row[1]), r_comp.hours, r_comp.qty)
    /\ UNCHANGED <<catalog, dumped, r_handler, r_comp, r_log, r_items>>
    /\ UNCHANGED resolverRest

\* any catalog, saved or not, and any of the sheets
InitResolve ==
    /\ DownloaderIdle
    /\ OfflineIdle
    /\ ent_rows \in ResolverSheets
    /\ ent_prices = normalise_enterprise_rows(ent_rows)
    /\ e_pc = "built"
    /\ e_builder = "enterprise"
    /\ e_query = NoKey
    /\ e_consulted = <<>>
    /\ e_found = NotFound
    /\ catalog \in Catalogs
    /\ dumped \in BOOLEAN
    /\ r_pc = "idle"
    /\ r_handler = "none"
    /\ r_comp = NoComp
    /\ r_log = <<>>
    /\ r_items = <<>>
    /\ r_ret = NoRet
    /\ ProgramIdle

NextResolve ==
    \/ PriceComponent
    \/ ServiceEnterprise
    \/ ServiceSaved
    \/ ServiceLive
    \/ ServiceSelect
    \/ VmEnterprise
    \/ VmFetch
    \/ VmPick

SpecResolve == InitResolve /\ [][NextResolve]_vars

\* ------------------------------------------------------------------------
\* run_model of price_model.py: the loop over workloads and components
\* ------------------------------------------------------------------------

MaxWorkloads == 2
MaxComponents == 2

\* the component types _make_handlers registers (two of them)
HandlerTypes == {"vm", "governance"}

\* the components of a bill of materials: one the handler prices, one whose
\* handler raises (price_vm with no retail row), one of a type with no
\* handler
BomComponents ==
    {[type |-> "vm", raises |-> FALSE, cost |-> 250],
     [type |-> "vm", raises |-> TRUE, cost |-> 0],
     [type |-> "vmm", raises |-> FALSE, cost |-> 0]}

Workloads == UNION {[1..n -> BomComponents] : n \in 0..MaxComponents}
Boms == UNION {[1..n -> Workloads] : n \in 0..MaxWorkloads}

\* price_model.py lines 126-142, coverages in percent, total in cents
apply_optimisations(total, sp_cov, ri_cov) ==
    LET ri_slice == total * ri_cov * (100 - 35) * 100
        sp_slice == total * (100 - ri_cov) * sp_cov * (100 - 18)
        payg_slice == total * (100 - ri_cov) * (100 - sp_cov) * 100
    IN (ri_slice + sp_slice + payg_slice) \div 1000000

runnerRest == <<nextPage, files, pc, locals, faults, calls, track, hist, offline, index, resolver,
                picker, loader, selection>>

\* lines 283-320: the optional dump, the index, the header
RunStart ==
    /\ m_pc = "idle"
    /\ m_pc' = "workload"
    /\ m_w' = 1
    /\ m_grand' = 0
    /\ UNCHANGED <<m_bom, m_c, m_lines, m_wl_total, m_summary>>
    /\ UNCHANGED runnerRest

\* lines 325-332: the next workload
WorkloadStart ==
    /\ m_pc = "workload"
    /\ m_w <= Len(m_bom)
    /\ m_wl_total' = 0
    /\ m_c' = 1
    /\ m_pc' = "component"
    /\ UNCHANGED <<m_bom, m_w, m_lines, m_summary, m_grand>>
    /\ UNCHANGED runnerRest

\* lines 334-355: one component
PriceOne ==
    /\ m_pc = "component"
    /\ m_c <= Len(m_bom[m_w])
    /\ LET comp == m_bom[m_w][m_c]
           cost == IF comp.raises THEN 0 ELSE comp.cost
           desc == IF comp.raises THEN "error" ELSE "priced"
       IN IF comp.type \notin HandlerTypes
          THEN UNCHANGED <<m_lines, m_wl_total>>
          ELSE /\ m_lines' = Append(m_lines, [w |-> m_w, c |-> m_c, type |-> comp.type,
                                               cost |-> cost, desc |-> desc])
               /\ m_wl_total' = m_wl_total + cost
    /\ m_c' = m_c + 1
    /\ UNCHANGED <<m_pc, m_bom, m_w, m_summary, m_grand>>
    /\ UNCHANGED runnerRest

\* lines 357-367: the workload's totals, with assumptions that set no
\* coverage
WorkloadEnd ==
    /\ m_pc = "component"
    /\ m_c > Len(m_bom[m_w])
    /\ LET wl_total_opt == apply_optimisations(m_wl_total, 0, 0)
       IN /\ m_grand' = m_grand + wl_total_opt
          /\ m_summary' = Append(m_summary, [w |-> m_w, total |-> m_wl_total, opt |-> wl_total_opt])
    /\ m_w' = m_w + 1
    /\ m_pc' = "workload"
    /\ UNCHANGED <<m_bom, m_c, m_lines, m_wl_total>>
    /\ UNCHANGED runnerRest

\* lines 369-373: the grand total is printed
GrandTotal ==
    /\ m_pc = "workload"
    /\ m_w > Len(m_bom)
    /\ m_pc' = "done"
    /\ UNCHANGED <<m_bom, m_w, m_c, m_lines, m_wl_total, m_summary, m_grand>>
    /\ UNCHANGED runnerRest

InitRun ==
    /\ DownloaderIdle
    /\ OfflineIdle
    /\ IndexIdle
    /\ ResolverIdle
    /\ PickerIdle
    /\ LoaderIdle
    /\ m_pc = "idle"
    /\ m_bom \in Boms
    /\ m_w = 0
    /\ m_c = 0
    /\ m_lines = <<>>
    /\ m_wl_total = 0
    /\ m_summary = <<>>
    /\ m_grand = 0
    /\ SelectionIdle

NextRun ==
    \/ RunStart
    \/ WorkloadStart
    \/ PriceOne
    \/ WorkloadEnd
    \/ GrandTotal

SpecRun == InitRun /\ [][NextRun]_vars

\* ------------------------------------------------------------------------
\* The selection routines: pick of helpers/csv.py, _pick of helpers.py and
\* _pick_vm_item of handlers/vm.py
\* ------------------------------------------------------------------------

\* helpers/csv.py lines 88-102; <<>> stands for None
pick(items, prefer_uom) ==
    LET a == FirstOf(items, LAMBDA i : i.unitOfMeasure = prefer_uom /\ _price(i) > 0)
        b == FirstOf(items, LAMBDA i : _price(i) > 0)
    IN IF items = <<>> THEN <<>>
       ELSE IF prefer_uom # <<>> /\ a # <<>> THEN a
       ELSE IF b # <<>> THEN b
       ELSE <<items[1]>>

\* helpers.py lines 44-54; <<>> stands for None
_pick(items, uom) ==
    LET a == FirstOf(items, LAMBDA i : i.unitOfMeasure = uom /\ decimal(i.retailPrice) > 0)
        b == FirstOf(items, LAMBDA i : decimal(i.retailPrice) > 0)
    IN IF items = <<>> THEN <<>>
       ELSE IF uom # <<>> /\ a # <<>> THEN a
       ELSE IF b # <<>> THEN b
       ELSE <<items[1]>>

pickerRest == <<nextPage, files, pc, locals, faults, calls, track, hist, offline, index, resolver,
                runner, loader, selection>>

\* a caller applies pick to the rows a query returned
PickCsv ==
    /\ p_pc = "idle"
    /\ \E items \in Catalogs : \E uom \in {<<>>, t1Hour} :
        /\ p_items' = items
        /\ p_uom' = uom
        /\ p_row' = pick(items, uom)
    /\ p_routine' = "pick"
    /\ p_pc' = "picked"
    /\ UNCHANGED p_os
    /\ UNCHANGED pickerRest

\* a handler applies _pick to the rows a query returned
PickLegacy ==
    /\ p_pc = "idle"
    /\ \E items \in Catalogs : \E uom \in {<<>>, t1Hour} :
        /\ p_items' = items
        /\ p_uom' = uom
        /\ p_row' = _pick(items, uom)
    /\ p_routine' = "_pick"
    /\ p_pc' = "picked"
    /\ UNCHANGED p_os
    /\ UNCHANGED pickerRest

\* price_vm applies _pick_vm_item to the rows a query returned
PickVm ==
    /\ p_pc = "idle"
    /\ \E items \in Catalogs : \E os \in {tLinux, tWindows} :
        /\ p_items' = items
        /\ p_os' = os
        /\ p_row' = _pick_vm_item(items, os, t1Hour)
    /\ p_uom' = t1Hour
    /\ p_routine' = "_pick_vm_item"
    /\ p_pc' = "picked"
    /\ UNCHANGED pickerRest

InitPick ==
    /\ DownloaderIdle
    /\ OfflineIdle
    /\ IndexIdle
    /\ ResolverIdle
    /\ PickerIdle
    /\ RunnerIdle
    /\ LoaderIdle
    /\ SelectionIdle

NextPick ==
    \/ PickCsv
    \/ PickLegacy
    \/ PickVm

SpecPick == InitPick /\ [][NextPick]_vars

\* ------------------------------------------------------------------------
\* _load_enterprise_prices of price_model.py
\* ------------------------------------------------------------------------

\* the arguments of a run and what the two sources answer: the download
\* yields rows with prices, yields none, or raises; the CSV is not given,
\* yields prices, yields none, or cannot be read
Cfgs ==
    [api : {"none", "mca", "ea"}, token : BOOLEAN, account : BOOLEAN,
     download : {"rows", "empty", "fails"}, csv : {"none", "rows", "empty", "fails"}]

loaderRest == <<nextPage, files, pc, locals, faults, calls, track, hist, offline, index, resolver,
                picker, runner, selection>>

\* price_model.py line 315: run_model calls _load_enterprise_prices
LoadCall ==
    /\ l_pc = "idle"
    /\ l_pc' = "called"
    /\ UNCHANGED <<l_cfg, l_source, l_tried>>
    /\ UNCHANGED loaderRest

\* price_model.py lines 164-196: one try block around the API branch and the
\* CSV branch
LoadEnterprisePrices ==
    /\ l_pc = "called"
    /\ LET use_api == l_cfg.api # "none" /\ l_cfg.token
           downloads == use_api /\ l_cfg.account
           api_raised == downloads /\ l_cfg.download = "fails"
           from_api == downloads /\ l_cfg.download = "rows"
           reads_csv == ~api_raised /\ ~from_api /\ l_cfg.csv # "none"
       IN /\ l_tried' = (use_api \/ reads_csv)
          /\ l_source' = IF from_api THEN "api"
                         ELSE IF reads_csv /\ l_cfg.csv = "rows" THEN "csv"
                         ELSE "none"
    /\ l_pc' = "loaded"
    /\ UNCHANGED l_cfg
    /\ UNCHANGED loaderRest

InitLoad ==
    /\ DownloaderIdle
    /\ OfflineIdle
    /\ IndexIdle
    /\ ResolverIdle
    /\ PickerIdle
    /\ RunnerIdle
    /\ l_pc = "idle"
    /\ l_cfg \in Cfgs
    /\ l_source = "none"
    /\ l_tried = FALSE
    /\ SelectionIdle

NextLoad ==
    \/ LoadCall
    \/ LoadEnterprisePrices

SpecLoad == InitLoad /\ [][NextLoad]_vars

\* ------------------------------------------------------------------------
\* The unit normalizer: _per_count_from_text of helpers.py (the copy in
\* handlers/common.py has the same body)
\* ------------------------------------------------------------------------

Digits == <<"0", "1", "2", "3", "4", "5", "6", "7", "8", "9">>
IsDigit(c) == \E i \in 1..Len(Digits) : Digits[i] = c
DigitValue(c) == (CHOOSE i \in 1..Len(Digits) : Digits[i] = c) - 1

RECURSIVE SkipDigits(_, _)
SkipDigits(s, i) == IF i <= Len(s) /\ IsDigit(s[i]) THEN SkipDigits(s, i + 1) ELSE i

\* int() of a text of digits
RECURSIVE IntOf(_)
IntOf(s) == IF s = <<>> THEN 0 ELSE IntOf(SubSeq(s, 1, Len(s) - 1)) * 10 + DigitValue(s[Len(s)])

\* str.replace(",", "")
RECURSIVE RemoveCommas(_)
RemoveCommas(t) ==
    IF t = <<>> THEN <<>>
    ELSE IF Head(t) = "," THEN RemoveCommas(Tail(t))
    ELSE <<Head(t)>> \o RemoveCommas(Tail(t))

\* re.search(r"per\s+(\d+)\s*(k)?", t): the positions where a match starts
PerStarts(t) ==
    {i \in 1..Len(t) :
        /\ Slice(t, i, i + 2) = <<"p", "e", "r">>
        /\ IsSpace(At(t, i + 3))
        /\ IsDigit(At(t, SkipSpaces(t, i + 3)))}

\* the number the leftmost match denotes
PerNumber(t) ==
    LET i == CHOOSE x \in PerStarts(t) : \A y \in PerStarts(t) : x <= y
        a == SkipSpaces(t, i + 3)
        b == SkipDigits(t, a)
        n == IntOf(SubSeq(t, a, b - 1))
    IN IF At(t, SkipSpaces(t, b)) = "k" THEN n * 1000 ELSE n

\* Faulty variant: the markers are tested from the shortest to the longest
detect_shortest_first(t) ==
    IF Contains(<<"1", "0", "0", "0">>, t) \/ Contains(<<"1", "k">>, t) THEN 1000
    ELSE IF Contains(<<"1", "0", "0", "0", "0">>, t) \/ Contains(<<"1", "0", "k">>, t) THEN 10000
    ELSE IF Contains(<<"1", "0", "0", "0", "0", "0">>, t) \/ Contains(<<"1", "0", "0", "k">>, t) THEN 100000
    ELSE IF PerStarts(t) # {} THEN PerNumber(t)
    ELSE 0

\* helpers.py lines 29-39; 0 stands for None
detect(t) ==
    IF Contains(<<"1", "0", "0", "0", "0", "0">>, t) \/ Contains(<<"1", "0", "0", "k">>, t) THEN 100000
    ELSE IF Contains(<<"1", "0", "0", "0", "0">>, t) \/ Contains(<<"1", "0", "k">>, t) THEN 10000
    ELSE IF Contains(<<"1", "0", "0", "0">>, t) \/ Contains(<<"1", "k">>, t) THEN 1000
    ELSE IF PerStarts(t) # {} THEN PerNumber(t)
    ELSE 0

\* helpers.py lines 19-42
_per_count_from_text(uom, item) ==
    LET s == RemoveCommas(Lower(uom))
        txt == RemoveCommas(Lower(item.meterName \o <<" ">> \o item.productName \o <<" ">> \o item.skuName))
        n == IF detect(s) # 0 THEN detect(s) ELSE detect(txt)
    IN IF n # 0 THEN n ELSE 1

\* texts that denote a batch of n units, with and without separators and
\* a leading "per"
BatchUoms ==
    {[text |-> <<"1", "0", "0", "0">>, n |-> 1000],
     [text |-> <<"p", "e", "r", " ", "1", "0", "0", "0">>, n |-> 1000],
     [text |-> <<"1", ",", "0", "0", "0">>, n |-> 1000],
     [text |-> <<"p", "e", "r", " ", "1", ",", "0", "0", "0">>, n |-> 1000],
     [text |-> <<"1", "0", "0", "0", "0">>, n |-> 10000],
     [text |-> <<"p", "e", "r", " ", "1", "0", "0", "0", "0">>, n |-> 10000],
     [text |-> <<"1", "0", ",", "0", "0", "0">>, n |-> 10000],
     [text |-> <<"p", "e", "r", " ", "1", "0", ",", "0", "0", "0">>, n |-> 10000],
     [text |-> <<"1", "0", "0", "0", "0", "0">>, n |-> 100000],
     [text |-> <<"p", "e", "r", " ", "1", "0", "0", "0", "0", "0">>, n |-> 100000],
     [text |-> <<"1", "0", "0", ",", "0", "0", "0">>, n |-> 100000],
     [text |-> <<"p", "e", "r", " ", "1", "0", "0", ",", "0", "0", "0">>, n |-> 100000],
     [text |-> <<"1", "0", "0", "0", "0", "0", "0">>, n |-> 1000000],
     [text |-> <<"p", "e", "r", " ", "1", "0", "0", "0", "0", "0", "0">>, n |-> 1000000],
     [text |-> <<"1", ",", "0", "0", "0", ",", "0", "0", "0">>, n |-> 1000000],
     [text |-> <<"p", "e", "r", " ", "1", ",", "0", "0", "0", ",", "0", "0", "0">>, n |-> 1000000]}

\* the unit-of-measure texts the normalizer is given
UomTexts ==
    {b.text : b \in BatchUoms} \cup
    {<<>>,
     <<"1", "0", "0", "k">>,
     <<"p", "e", "r", " ", "1", "0", "k">>,
     <<"1", "0", "K">>,
     <<"p", "e", "r", " ", "5">>,
     <<"1", " ", "H", "o", "u", "r">>,
     <<"p", "e", "r", " ", "2", " ", "k">>}

\* the names of the row the normalizer is given
ItemNames ==
    {NoNames,
     [meterName |-> <<"1", "0", "K", " ", "O", "p", "e", "r", "a", "t", "i", "o", "n", "s">>, productName |-> <<>>, skuName |-> <<>>],
     [meterName |-> <<>>, productName |-> <<"p", "e", "r", " ", "1", "0", "0", " ", "u", "n", "i", "t", "s">>, skuName |-> <<>>],
     [meterName |-> <<>>, productName |-> <<>>, skuName |-> <<"S", "t", "a", "n", "d", "a", "r", "d">>],
     [meterName |-> <<"1", ",", "0", "0", "0", ",", "0", "0", "0", " ", "T", "r", "a", "n", "s", "a", "c", "t", "i", "o", "n", "s">>, productName |-> <<>>, skuName |-> <<>>]}

normalizerRest == <<nextPage, files, pc, locals, faults, calls, track, hist, offline, index, resolver,
                    picker, runner, loader, selector>>

\* a handler asks for the batch size of a row's unit of measure
PerCount ==
    /\ u_pc = "idle"
    /\ \E uom \in UomTexts : \E item \in ItemNames :
        /\ u_uom' = uom
        /\ u_item' = item
        /\ u_ret' = _per_count_from_text(uom, item)
    /\ u_pc' = "done"
    /\ UNCHANGED normalizerRest

InitNormalise ==
    /\ DownloaderIdle
    /\ OfflineIdle
    /\ IndexIdle
    /\ ResolverIdle
    /\ PickerIdle
    /\ RunnerIdle
    /\ LoaderIdle
    /\ SelectionIdle

NextNormalise == PerCount

SpecNormalise == InitNormalise /\ [][NextNormalise]_vars

\* ------------------------------------------------------------------------
\* Candidate selection by score: price_fabric_capacity of handlers/fabric.py
\* and price_redis of handlers/redis.py
\* ------------------------------------------------------------------------

MaxCandidates == 3

\* the place of item n in the sorted list: list.sort(key=...) is stable, an
\* item comes after those of a smaller key and after the earlier items of the
\* same key
Rank(keys, n) ==
    Cardinality({m \in 1..Len(keys) : keys[m] < keys[n] \/ (keys[m] = keys[n] /\ m < n)}) + 1

\* items.sort(key=...) where keys[n] is the key of items[n]; the items and
\* the keys are evaluated once
SortAscending(items, keys) ==
    CHOOSE out \in {SubSeq([r \in 1..Len(it) |-> it[CHOOSE n \in 1..Len(it) : Rank(ks, n) = r]], 1, Len(it)) :
                       <<it, ks>> \in {<<SubSeq(items, 1, Len(items)), SubSeq(keys, 1, Len(keys))>>}} : TRUE

\* items.sort(key=..., reverse=True): descending, rows of equal key still in
\* their original order
SortDescending(items, keys) == SortAscending(items, [n \in 1..Len(keys) |-> 0 - keys[n]])

\* the lists of at most MaxCandidates different rows of a set
CandidateLists(rows) ==
    {l \in UNION {[1..n -> rows] : n \in 0..MaxCandidates} :
        \A i, j \in 1..Len(l) : i # j => l[i] # l[j]}

tF2 == <<"F", "2">>
tF4 == <<"F", "4">>
tFabric == <<"F", "a", "b", "r", "i", "c">>
tFabricCapacity == <<"F", "a", "b", "r", "i", "c", " ", "C", "a", "p", "a", "c", "i", "t", "y">>
tP1 == <<"P", "1">>
tP2 == <<"P", "2">>
tRedis == <<"R", "e", "d", "i", "s">>
tRedisCache == <<"R", "e", "d", "i", "s", " ", "C", "a", "c", "h", "e">>
tPremium == <<"P", "r", "e", "m", "i", "u", "m">>

\* fabric.py line 11 and lines 20-26, for the sku "F2"
FabricSku == tF2
FabricTokens ==
    {tF2, <<"F", " ", "2">>, <<"F", "2", " ", "C", "U">>, <<"C", "a", "p", "a", "c", "i", "t", "y", " ", "F", "2">>, <<"F", "2", " ", "C", "a", "p", "a", "c", "i", "t", "y">>, <<"F", "2", "C", "U">>}

\* rows the filters of price_fabric_capacity can return
FabricRows ==
    {RetailRow(1, tFabric, <<>>, tF2, tAE, t1Hour, Num(100)),
     RetailRow(2, tFabric, <<>>, tF2, tAE, t1Hour, Num(80)),
     RetailRow(3, tFabricCapacity, <<>>, tF2, tAE, t1Hour, Num(300)),
     RetailRow(4, tFabric, <<>>, tF2, <<>>, t1Hour, Num(50)),
     RetailRow(5, tFabric, <<>>, tF2, tAE, t1Hour, Num(0))}

\* " ".join([serviceName, productName, skuName, meterName]).lower()
_txt(i) ==
    Lower(i.serviceName \o <<" ">> \o i.productName \o <<" ">> \o i.skuName \o <<" ">> \o i.meterName)

\* fabric.py lines 107-119
score(i, sku, arm, uom) ==
    (IF i.armRegionName = arm THEN 6 ELSE 0)
    + (IF i.unitOfMeasure = uom THEN 4 ELSE 0)
    + (IF Contains(<<"f", "a", "b", "r", "i", "c">>, _txt(i)) THEN 3 ELSE 0)
    + (IF \E t \in FabricTokens : Contains(Lower(t), _txt(i)) THEN 5 ELSE 0)
    + (IF Contains(Lower(sku), Lower(i.skuName)) THEN 3 ELSE 0)
    + (IF Contains(<<"c", "a", "p", "a", "c", "i", "t", "y">>, _txt(i)) \/ Contains(<<"c", "u">>, _txt(i)) THEN 2 ELSE 0)

\* redis.py lines 24-34
_redis_family_for_sku(sku) ==
    IF At(Upper(sku), 1) = "P" THEN "premium"
    ELSE IF At(Upper(sku), 1) = "E" THEN "enterprise"
    ELSE "c"

\* redis.py lines 46-54
RedisBadTokens ==
    {<<"d", "a", "t", "a", " ", "t", "r", "a", "n", "s", "f", "e", "r">>,
     <<"b", "a", "n", "d", "w", "i", "d", "t", "h">>,
     <<"o", "u", "t", "b", "o", "u", "n", "d">>,
     <<"i", "n", "b", "o", "u", "n", "d">>,
     <<"b", "a", "c", "k", "u", "p">>,
     <<"s", "n", "a", "p", "s", "h", "o", "t">>,
     <<"o", "p", "e", "r", "a", "t", "i", "o", "n", "s">>,
     <<"p", "r", "i", "v", "a", "t", "e", " ", "l", "i", "n", "k">>,
     <<"v", "i", "r", "t", "u", "a", "l", " ", "n", "e", "t", "w", "o", "r", "k">>,
     <<"d", "n", "s">>,
     <<"g", "a", "t", "e", "w", "a", "y">>,
     <<"m", "e", "t", "e", "r", "e", "d", " ", "f", "e", "a", "t", "u", "r", "e">>}
_is_bad_redis_row(i) == \E b \in RedisBadTokens : Contains(b, _txt(i))

\* redis.py lines 57-83
_score_redis_row(i, arm, sku_token, fam) ==
    IF decimal(i.retailPrice) <= 0 \/ _is_bad_redis_row(i) THEN 0 - 999
    ELSE (IF i.unitOfMeasure = t1Hour THEN 6 ELSE 0)
       + (IF Lower(i.armRegionName) = arm THEN 5 ELSE 0)
       + (IF Contains(<<"r", "e", "d", "i", "s">>, _txt(i)) THEN 3 ELSE 0)
       + (IF Contains(sku_token, RemoveSpaces(_txt(i))) THEN 6
          ELSE IF Contains(sku_token, _txt(i)) THEN 4 ELSE 0)
       + (IF fam = "premium" /\ Contains(<<"p", "r", "e", "m", "i", "u", "m">>, _txt(i)) THEN 4 ELSE 0)
       + (IF fam = "enterprise" /\ Contains(<<"e", "n", "t", "e", "r", "p", "r", "i", "s", "e">>, _txt(i)) THEN 4 ELSE 0)
       + (IF fam = "c" /\ Contains(<<"s", "t", "a", "n", "d", "a", "r", "d">>, _txt(i)) THEN 3 ELSE 0)
       + (IF fam = "c" /\ Contains(<<"b", "a", "s", "i", "c">>, _txt(i)) THEN 2 ELSE 0)
       + (IF Contains(<<"c", "a", "c", "h", "e">>, _txt(i)) THEN 1 ELSE 0)

\* the sku of the Redis component
RedisSku == tP1

\* rows the filters of price_redis can return
RedisRows ==
    {RetailRow(1, tRedis, tPremium, tP1, tAE, t1Hour, Num(100)),
     RetailRow(2, tRedis, tPremium, tP1, tAE, t1Hour, Num(80)),
     RetailRow(3, tRedisCache, tPremium, tP1, tAE, t1Hour, Num(400)),
     RetailRow(4, tRedis, tPremium, tP2, tAE, t1Hour, Num(60)),
     RetailRow(5, tRedis, tPremium, tP1, tAE, t1Hour, Num(0))}

selectorRest == <<nextPage, files, pc, locals, faults, calls, track, hist, offline, index, resolver,
                  picker, runner, loader, normalizer>>

\* fabric.py lines 98-123, from the merged rows to the unit price
SelectFabric ==
    /\ s_pc = "idle"
    /\ \E merged \in CandidateLists(FabricRows) :
        LET items == SelectSeq(merged, LAMBDA i : decimal(i.retailPrice) > 0)
            sorted == SortDescending(items, [n \in 1..Len(items) |-> score(items[n], FabricSku, tAE, t1Hour)])
        IN /\ s_items' = merged
           /\ IF items = <<>>
              THEN s_raised' = TRUE /\ s_row' = <<>> /\ s_unit' = 0
              ELSE s_raised' = FALSE /\ s_row' = <<sorted[1]>> /\ s_unit' = decimal(sorted[1].retailPrice)
    /\ s_handler' = "fabric"
    /\ s_pc' = "selected"
    /\ UNCHANGED s_batches
    /\ UNCHANGED selectorRest

\* redis.py lines 115-123, from the merged rows to the unit price
SelectRedis ==
    /\ s_pc = "idle"
    /\ \E merged \in CandidateLists(RedisRows) :
        LET items == SelectSeq(merged, LAMBDA i :
                         decimal(i.retailPrice) > 0 /\ Contains(Lower(tRedis), _txt(i)))
            keys == [n \in 1..Len(items) |->
                        _score_redis_row(items[n], tAE, Lower(RedisSku), _redis_family_for_sku(RedisSku))]
            sorted == SortDescending(items, keys)
        IN /\ s_items' = merged
           /\ IF items = <<>>
              THEN s_row' = <<>> /\ s_unit' = 0
              ELSE s_row' = <<sorted[1]>> /\ s_unit' = decimal(sorted[1].retailPrice)
    /\ s_raised' = FALSE
    /\ s_handler' = "redis"
    /\ s_pc' = "selected"
    /\ UNCHANGED s_batches
    /\ UNCHANGED selectorRest

\* ------------------------------------------------------------------------
\* Candidate selection of App Service: _pick_app_service and
\* price_app_service of handlers/app_service.py
\* ------------------------------------------------------------------------

tAppService == <<"A", "p", "p", " ", "S", "e", "r", "v", "i", "c", "e">>
tP1v3 == <<"P", "1", "v", "3">>
tP1v3Plus == <<"P", "1", "v", "3", " ", "P", "l", "u", "s">>
tIsolated == <<"I", "s", "o", "l", "a", "t", "e", "d">>
tLinuxLower == <<"l", "i", "n", "u", "x">>
tWindowsLower == <<"w", "i", "n", "d", "o", "w", "s">>

\* the sku of the App Service component
AppServiceSku == tP1v3

\* rows the filters of price_app_service can return
AppServiceRows ==
    {RetailRow(1, tAppService, <<>>, tP1v3, tAE, t1Hour, Num(250)),
     RetailRow(2, tAppService, <<>>, tP1v3, <<>>, t1Hour, Num(200)),
     RetailRow(3, tAppService, <<>>, tP1v3Plus, tAE, t1Hour, Num(2000)),
     RetailRow(4, tAppService, tIsolated, tP1v3, tAE, t1Hour, Num(100)),
     RetailRow(5, tAppService, <<>>, tP1v3, tAE, t1Hour, Num(1800)),
     RetailRow(6, tAppService, tWindows, tP1v3, <<>>, t1Hour, Num(150))}

\* Faulty variant: the ceiling is the highest price the API serves, so that
\* no selected price exceeds it
ceiling_unreachable ==
    CHOOSE c \in {_price(i) : i \in AppServiceRows} : \A i \in AppServiceRows : _price(i) <= c

\* app_service.py lines 134 and 224: _d("1.50"), in thousandths
ceiling == 1500

\* app_service.py lines 53-61
_BAD_TOKENS ==
    {<<"s", "t", "a", "m", "p">>,
     <<"s", "t", "a", "m", "p", " ", "f", "e", "e">>,
     <<"e", "n", "v", "i", "r", "o", "n", "m", "e", "n", "t", " ", "b", "a", "s", "e">>,
     <<"a", "p", "p", " ", "s", "e", "r", "v", "i", "c", "e", " ", "e", "n", "v", "i", "r", "o", "n", "m", "e", "n", "t">>,
     <<"a", "s", "e">>,
     <<"a", "s", "e", " ", "v", "2">>,
     <<"a", "s", "e", " ", "v", "3">>,
     <<"i", "s", "o", "l", "a", "t", "e", "d">>,
     <<"i", "s", "o", "l", "a", "t", "e", "d", " ", "v", "2">>,
     <<"f", "u", "n", "c", "t", "i", "o", "n", "s">>,
     <<"f", "u", "n", "c", "t", "i", "o", "n", " ", "a", "p", "p">>,
     <<"f", "r", "e", "e">>,
     <<"s", "h", "a", "r", "e", "d">>}

\* app_service.py lines 82-89
_is_bad_row(i) == \E tok \in _BAD_TOKENS : Contains(tok, _txt(i))

\* str.replace("v", " v")
RECURSIVE SpaceBeforeV(_)
SpaceBeforeV(t) ==
    IF t = <<>> THEN <<>>
    ELSE IF Head(t) = "v" THEN <<" ", "v">> \o SpaceBeforeV(Tail(t))
    ELSE <<Head(t)>> \o SpaceBeforeV(Tail(t))

\* app_service.py lines 91-103
_mentions_sku(i, sku) ==
    LET sku_l == Lower(sku)
        spaced == SpaceBeforeV(sku_l)
        text == Lower(i.skuName \o <<" ">> \o i.meterName \o <<" ">> \o i.productName)
    IN \/ Lower(Strip(i.skuName)) = sku_l
       \/ Contains(sku_l, text)
       \/ Contains(spaced, text)

\* app_service.py lines 105-118
_ok_plan_row(i, sku) ==
    /\ decimal(i.retailPrice) > 0
    /\ i.unitOfMeasure = t1Hour
    /\ ~_is_bad_row(i)
    /\ Contains(Lower(tAppService), Lower(i.serviceName \o <<" ">> \o i.productName))
    /\ _mentions_sku(i, sku)

\* sorting by the price alone
ByPrice(rows) == SortAscending(rows, [n \in 1..Len(rows) |-> decimal(rows[n].retailPrice)])

\* app_service.py lines 120-139; <<>> stands for None.  The key
\* (-region_match, price) is one number: prices stay below a million
_pick_app_service(items, sku, arm) ==
    LET cands == SelectSeq(items, LAMBDA i : _ok_plan_row(i, sku))
        sorted == SortAscending(cands, [n \in 1..Len(cands) |->
                      (IF cands[n].armRegionName = arm THEN 0 ELSE 1000000)
                      + decimal(cands[n].retailPrice)])
        top == sorted[1]
        exacts == SelectSeq(sorted, LAMBDA i : Strip(i.skuName) = sku)
    IN IF cands = <<>> THEN <<>>
       ELSE IF decimal(top.retailPrice) > ceiling /\ exacts # <<>> THEN <<ByPrice(exacts)[1]>>
       ELSE <<top>>

\* app_service.py lines 190-199
os_ok(i, os_hint) ==
    LET txt == Lower(i.productName \o <<" ">> \o i.skuName \o <<" ">> \o i.meterName)
        has_win == Contains(tWindowsLower, txt)
        has_lin == Contains(tLinuxLower, txt)
    IN IF os_hint = tLinuxLower THEN has_lin \/ (~has_win /\ ~has_lin)
       ELSE has_win \/ (~has_win /\ ~has_lin)

\* app_service.py lines 189-236, from the merged rows to the unit price
\* (each intermediate value is bound once, as the assignments of the code)
SelectAppService ==
    /\ s_pc = "idle"
    /\ \E merged \in CandidateLists(AppServiceRows) : \E os_hint \in {<<>>, tLinuxLower} :
       \E items \in {IF os_hint \in {tLinuxLower, tWindowsLower}
                     THEN SelectSeq(merged, LAMBDA i : os_ok(i, os_hint)) ELSE merged} :
       \E picked \in {_pick_app_service(items, AppServiceSku, tAE)} :
       \E fallbacks \in {ByPrice(SelectSeq(items, LAMBDA i :
                             /\ i.unitOfMeasure = t1Hour
                             /\ _mentions_sku(i, AppServiceSku)
                             /\ ~_is_bad_row(i)
                             /\ decimal(i.retailPrice) > 0))} :
       \E row \in {IF picked # <<>> THEN picked
                   ELSE IF fallbacks # <<>> THEN <<fallbacks[1]>> ELSE <<>>} :
       \E exacts \in {ByPrice(SelectSeq(items, LAMBDA i :
                          /\ i.unitOfMeasure = t1Hour
                          /\ Strip(i.skuName) = AppServiceSku
                          /\ ~_is_bad_row(i)
                          /\ decimal(i.retailPrice) > 0))} :
       \E unit \in {IF row = <<>> THEN 0 ELSE decimal(row[1].retailPrice)} :
           /\ s_items' = items
           /\ s_row' = row
           /\ s_unit' = IF unit > ceiling /\ exacts # <<>> /\ decimal(exacts[1].retailPrice) > 0
                        THEN decimal(exacts[1].retailPrice) ELSE unit
    /\ s_raised' = FALSE
    /\ s_handler' = "app_service"
    /\ s_pc' = "selected"
    /\ UNCHANGED s_batches
    /\ UNCHANGED selectorRest

InitSelect ==
    /\ DownloaderIdle
    /\ OfflineIdle
    /\ IndexIdle
    /\ ResolverIdle
    /\ PickerIdle
    /\ RunnerIdle
    /\ LoaderIdle
    /\ SelectionIdle

NextSelect ==
    \/ SelectFabric
    \/ SelectRedis
    \/ SelectAppService

SpecSelect == InitSelect /\ [][NextSelect]_vars

\* ------------------------------------------------------------------------
\* Executing the filters of a cascade and merging their answers:
\* price_by_service with dedup_merge of helpers/csv.py, price_app_service
\* with _dedup_merge of helpers.py, and the loop of price_fabric_capacity
\* ------------------------------------------------------------------------

MaxFilters == 2
MaxBatchRows == 2

\* a row as the API returns it, with the ids the merge routines read;
\* meterId 0 stands for a row without meterId
ApiRow(id, product_id, price) ==
    [meterId |-> id, productId |-> product_id, skuId |-> 1, serviceName |-> tVM,
     productName |-> <<>>, skuName |-> tD4, armSkuName |-> tD4, meterName |-> <<>>,
     armRegionName |-> tAE, unitOfMeasure |-> t1Hour, retailPrice |-> Num(price),
     priceType |-> tConsumption, type |-> tConsumption]

\* one row with a meterId and two without, which differ in productId and
\* price only
ApiRows == {ApiRow(1, 1, 384), ApiRow(0, 1, 390), ApiRow(0, 2, 400)}

\* what a filter answers: rows, or an error of the request
Answers ==
    {[err |-> FALSE, rows |-> l] : l \in UNION {[1..n -> ApiRows] : n \in 0..MaxBatchRows}}
Failure == [err |-> TRUE, rows |-> <<>>]

\* the answers of the filters of a cascade
Cascades(answers) == UNION {[1..n -> answers] : n \in 0..MaxFilters}

\* helpers.py line 60, fabric.py line 90: the key of a row
LegacyDedupKey(it) ==
    IF it.meterId # 0 THEN [id |-> it.meterId, alt |-> <<>>]
    ELSE [id |-> 0, alt |-> <<it.productId, it.skuId, it.meterName>>]

RECURSIVE LegacyDedupFrom(_, _, _)
LegacyDedupFrom(rows, seen, out) ==
    IF rows = <<>> THEN out
    ELSE IF LegacyDedupKey(Head(rows)) \in seen THEN LegacyDedupFrom(Tail(rows), seen, out)
    ELSE LegacyDedupFrom(Tail(rows), seen \cup {LegacyDedupKey(Head(rows))}, Append(out, Head(rows)))

\* helpers.py lines 56-65
_dedup_merge(items_lists) == LegacyDedupFrom(Concat(items_lists), {}, <<>>)

RowsOf(batches) == [n \in 1..Len(batches) |-> batches[n].rows]

mergeRest == <<nextPage, files, pc, locals, faults, calls, track, hist, offline, index, resolver,
               picker, runner, loader, normalizer>>

\* helpers/pricing.py lines 112-117: the answers of the live source are
\* merged by dedup_merge
MergeService ==
    /\ s_pc = "idle"
    /\ \E batches \in Cascades(Answers) :
        /\ s_batches' = batches
        /\ s_items' = dedup_merge(NonEmpty(RowsOf(batches)))
    /\ s_raised' = FALSE
    /\ s_handler' = "service"
    /\ s_pc' = "merged"
    /\ UNCHANGED <<s_row, s_unit>>
    /\ UNCHANGED mergeRest

\* fabric.py lines 84-96: each filter in its own try block
MergeFabric ==
    /\ s_pc = "idle"
    /\ \E batches \in Cascades(Answers \cup {Failure}) :
        /\ s_batches' = batches
        /\ s_items' = _dedup_merge(RowsOf(SelectSeq(batches, LAMBDA b : ~b.err)))
    /\ s_raised' = FALSE
    /\ s_handler' = "fabric"
    /\ s_pc' = "merged"
    /\ UNCHANGED <<s_row, s_unit>>
    /\ UNCHANGED mergeRest

\* app_service.py lines 186-187: the filters are executed in a list
\* comprehension, then merged by _dedup_merge
MergeAppService ==
    /\ s_pc = "idle"
    /\ \E batches \in Cascades(Answers \cup {Failure}) :
        /\ s_batches' = batches
        /\ IF \E n \in 1..Len(batches) : batches[n].err
           THEN s_raised' = TRUE /\ s_items' = <<>>
           ELSE s_raised' = FALSE /\ s_items' = _dedup_merge(RowsOf(batches))
    /\ s_handler' = "app_service"
    /\ s_pc' = "merged"
    /\ UNCHANGED <<s_row, s_unit>>
    /\ UNCHANGED mergeRest

InitMerge ==
    /\ DownloaderIdle
    /\ OfflineIdle
    /\ IndexIdle
    /\ ResolverIdle
    /\ PickerIdle
    /\ RunnerIdle
    /\ LoaderIdle
    /\ SelectionIdle

NextMerge ==
    \/ MergeService
    \/ MergeFabric
    \/ MergeAppService

SpecMerge == InitMerge /\ [][NextMerge]_vars

\* ========================================================================
\* Properties
\* ========================================================================

RECURSIVE Count(_, _)
Count(x, s) ==
    IF s = <<>> THEN 0
    ELSE (IF Head(s) = x THEN 1 ELSE 0) + Count(x, Tail(s))

Range(s) == {s[i] : i \in 1..Len(s)}

SameMultiset(a, b) ==
    /\ Len(a) = Len(b)
    /\ \A x \in Range(a) \cup Range(b) : Count(x, a) = Count(x, b)

RECURSIVE RowsUpTo(_)
RowsUpTo(n) == IF n = 0 THEN <<>> ELSE RowsUpTo(n - 1) \o PageRows(n)

\* what one uninterrupted download of the whole catalog writes
FullRows == RowsUpTo(NPages)

Running(p) == pc[p] \in InTry

\* C1: with a single caller, whenever a download has completed - also one
\* that resumed an interrupted run - the data rows of the target file are
\* the same multiset as those of one uninterrupted download
C1_ResumeSameRows ==
    \A p \in Procs :
        (pc[p] = "done" /\ \A q \in Procs \ {p} : pc[q] = "idle")
            => SameMultiset(target.rows, FullRows)

\* C2: a call is refused only while another download is running (an
\* interrupted download never blocks the next call), and the first page a
\* call fetches is the continuation link of the checkpoint it loaded
C2_ResumeAfterInterruption ==
    [][\A p \in Procs :
         /\ (pc[p] = "lock" /\ pc'[p] = "refused") => \E q \in Procs : Running(q)
         /\ (pc[p] = "open" /\ pc'[p] = "get") => url'[p] = EnsureCurrency(next_url[p])
      ]_vars

\* C3: at most one download is between lock acquisition and release, and a
\* call that finds the lock held ends refused and changes no file
C3_LockExcludes ==
    /\ [](Cardinality({p \in Procs : Running(p)}) <= 1)
    /\ [][\A p \in Procs :
            (pc[p] = "lock" /\ lock /\ pc'[p] # "lock")
                => /\ pc'[p] \in {"refused", "killed"}
                   /\ files' = files
         ]_vars

C3_Witness == \E p, q \in Procs : pc[p] = "refused" /\ Running(q)

\* C4: the target file changes only by the rename of the .part file, and
\* what it then holds is the rows of every page of the catalog
C4_TargetNeverPartial ==
    [][target' # target =>
         /\ \E p \in Procs : pc[p] = "finalize" /\ pc'[p] = "verify" /\ target' = part
         /\ \A r \in Range(FullRows) : r \in Range(target'.rows)
      ]_vars

\* the call p has saved a checkpoint
SavedByCall(p) ==
    \/ pc[p] \in {"finalize", "verify"}
    \/ pc[p] \in {"get", "flush", "checkpoint"} /\ Cardinality(seen_urls[p]) > 1

C7_ReturnsRowCount ==
    [][\A p \in Procs :
         (pc[p] = "verify" /\ pc'[p] = "done" /\ \A q \in Procs \ {p} : pc[q] = "idle")
            => result'[p] = Len(target'.rows)
      ]_vars

\* C8: every data row of the .part file and of the target file carries a
\* price that is a number greater than zero
C8_OnlyPositiveRows ==
    \A r \in Range(part.rows) \cup Range(target.rows) :
        r.retailPrice.k = "num" /\ r.retailPrice.v > 0

C8_Witness ==
    /\ target.exists
    /\ Len(target.rows) > 0
    /\ \E page \in Pages : Len(PageRows(page)) < Len(Items(page))

\* C6: within one download no page is requested more than 4 times, and the
\* failing last attempt ends the download in an error with the target, the
\* checkpoint and the .part file as they were and the lock released
C6_BoundedRetry ==
    /\ [](\A p \in Procs : client[p] = "download" => \A g \in Pages : reqs[p][g] <= 4)
    /\ [][\A p \in Procs :
            (pc[p] = "get" /\ attempt[p] >= 4 /\ reqs'[p] # reqs[p] /\ fetchlog'[p] = fetchlog[p])
                => /\ pc'[p] = "failed"
                   /\ target' = target /\ cp' = cp /\ part' = part
                   /\ ~lock'
         ]_vars

C6_Witness ==
    \E p \in Procs : \E g \in Pages :
        /\ pc[p] = "failed" /\ client[p] = "download"
        /\ reqs[p][g] = 4
        /\ cp.exists /\ part.exists /\ ~lock

\* C9: no fetch loop receives the same page twice in one run
C9_NoPageFetchedTwice ==
    \A p \in Procs : \A g \in Pages : Count(g, fetchlog[p]) <= 1

Recognised(c) == c.kind \in {"eq", "contains"}

\* the clause holds of the row: equality, or containment, ignoring case
ClauseHolds(c, row) ==
    IF c.kind = "eq"
    THEN Lower(FieldText(row, c.fld)) = Lower(c.val)
    ELSE Contains(Lower(c.val), Lower(FieldText(row, c.fld)))

ReturnedIds == {x.meterId : x \in Range(o_out)}

\* C10: of the cached rows of the requested currency, the offline fetch
\* returns exactly those of which every clause of the filter holds
C10_FilterExact ==
    (o_pc = "fetched" /\ \A i \in 1..Len(o_clauses) : Recognised(o_clauses[i])) =>
        \A r \in Range(target.rows) :
            Upper(r.currencyCode) = Upper(o_currency) =>
                ((r.meterId \in ReturnedIds)
                    <=> \A i \in 1..Len(o_clauses) : ClauseHolds(o_clauses[i], r))

\* the value of the clause is split or nested by no character of its own
PlainValue(c) == ~Contains(tAnd, Lower(c.val)) /\ ~Contains(<<"(">>, c.val) /\ ~Contains(<<")">>, c.val)

\* C11: in a filter with a clause the interpreter does not recognise, that
\* clause removes no row and the recognised clauses are still applied: of the
\* cached rows of the requested currency exactly those are returned of which
\* every recognised clause holds
C11_UnknownClausePermissive ==
    (/\ o_pc = "fetched"
     /\ \E i \in 1..Len(o_clauses) : ~Recognised(o_clauses[i])
     /\ \A i \in 1..Len(o_clauses) : Recognised(o_clauses[i]) => PlainValue(o_clauses[i])) =>
        \A r \in Range(target.rows) :
            Upper(r.currencyCode) = Upper(o_currency) =>
                ((r.meterId \in ReturnedIds)
                    <=> \A i \in 1..Len(o_clauses) :
                            Recognised(o_clauses[i]) => ClauseHolds(o_clauses[i], r))

\* the positive prices of the rows of the sheet that have the key
PositivePrices(key) ==
    {ent_rows[i].unitPrice.v : i \in {j \in 1..Len(ent_rows) :
        /\ KeyOf(ent_rows[j]) = key
        /\ ent_rows[j].unitPrice.k = "num"
        /\ ent_rows[j].unitPrice.v > 0}}

Min(S) == CHOOSE x \in S : \A y \in S : x <= y

SheetKeys == {KeyOf(ent_rows[i]) : i \in 1..Len(ent_rows)}

\* C12: the index built from a sheet holds, for each key, the lowest of the
\* positive prices of the rows with that key, and no entry for a key none
\* of whose rows has a positive price
C12_LowestPositiveWins ==
    e_pc # "idle" =>
        /\ DOMAIN ent_prices \subseteq SheetKeys
        /\ \A key \in SheetKeys :
            IF PositivePrices(key) = {}
            THEN key \notin DOMAIN ent_prices
            ELSE key \in DOMAIN ent_prices /\ ent_prices[key] = Min(PositivePrices(key))

\* C13: lookup returns the price under the exact key when present, else the
\* price under the key with the region blanked when present, else not-found;
\* it tests no other key and leaves the index as it was
C13_LookupExactThenRegionless ==
    [][(e_pc = "built" /\ e_pc' = "looked") =>
        LET exact == e_query'
            blank == <<exact[1], exact[2], <<>>, exact[4]>>
        IN /\ e_found' = IF exact \in DOMAIN ent_prices THEN Found(ent_prices[exact])
                         ELSE IF blank \in DOMAIN ent_prices THEN Found(ent_prices[blank])
                         ELSE NotFound
           /\ Range(e_consulted') \subseteq {exact, blank}
           /\ ent_prices' = ent_prices
      ]_vars

\* a lookup for a region the sheet does not list was answered by the
\* regionless entry
C13_Witness ==
    /\ e_pc = "looked"
    /\ e_query[3] = tOtherRegion
    /\ e_query \notin DOMAIN ent_prices
    /\ e_found.found
    /\ \E k \in DOMAIN ent_prices : k[3] = tRegion

\* the key of the component being priced, and the same key with no region
CompKey == <<r_comp.service, r_comp.sku, r_comp.region, r_comp.uom>>
CompKeyNoRegion == <<r_comp.service, r_comp.sku, <<>>, r_comp.uom>>
NegotiatedHit == CompKey \in DOMAIN ent_prices \/ CompKeyNoRegion \in DOMAIN ent_prices
NegotiatedPrice ==
    IF CompKey \in DOMAIN ent_prices THEN ent_prices[CompKey] ELSE ent_prices[CompKeyNoRegion]

\* C14: the negotiated index is the first source consulted; when it holds a
\* price for the component no retail source (saved pages or live API) is
\* queried and the unit price is the negotiated price; a retail source is
\* queried only after the negotiated lookup missed
C14_NegotiatedFirst ==
    /\ r_log # <<>> => r_log[1] = "negotiated"
    /\ (\E n \in 1..Len(r_log) : r_log[n] \in {"saved", "live"}) => ~NegotiatedHit
    /\ (r_pc \notin {"idle", "enterprise"} /\ NegotiatedHit) =>
        /\ r_pc = "returned"
        /\ r_log = <<"negotiated">>
        /\ r_ret.unit = NegotiatedPrice

\* a component priced by price_by_service from the regionless entry of the
\* sheet, with no retail query
C14_Witness ==
    /\ r_pc = "returned"
    /\ r_handler = "service"
    /\ CompKey \notin DOMAIN ent_prices
    /\ NegotiatedHit
    /\ r_log = <<"negotiated">>
    /\ r_ret.unit = 2000

NoRetailPrice ==
    \A n \in 1..Len(catalog) :
        ~(_price(catalog[n]) > 0 /\ catalog[n].serviceName = r_comp.service)

\* C16: when neither the negotiated index nor the retail source holds a
\* price for the component, the handler does not raise; it returns total 0
\* with a description saying that no price was found
C16_MissReturnsZero ==
    (r_pc \in {"returned", "raised"} /\ ~NegotiatedHit /\ NoRetailPrice) =>
        /\ r_pc = "returned"
        /\ ~r_ret.error
        /\ r_ret.total = 0
        /\ r_ret.desc = "no_price_found"

\* row n of the catalog carries a positive price and the component's
\* service, sku, region and unit of measure
Matching(n) ==
    /\ _price(catalog[n]) > 0
    /\ catalog[n].serviceName = r_comp.service
    /\ catalog[n].armSkuName = r_comp.sku
    /\ catalog[n].armRegionName = arm_region(r_comp.region)
    /\ catalog[n].unitOfMeasure = r_comp.uom

\* C18: with no negotiated price and a catalog holding exactly one
\* positive-priced row of the component's service, sku, region and unit of
\* measure, the total is that row's price x quantity x hours
C18_SingleMatchPriced ==
    (r_pc \in {"returned", "raised"} /\ ~NegotiatedHit) =>
        \A n \in 1..Len(catalog) :
            (Matching(n) /\ \A k \in 1..Len(catalog) : Matching(k) => k = n) =>
                /\ r_pc = "returned"
                /\ r_ret.total = _price(catalog[n]) * r_comp.qty * r_comp.hours

\* C17: the run ends with the grand total printed and one printed line for
\* every component of every workload; a component whose handler raised has
\* a line with cost 0 and an explanatory description, and the components
\* after it have their lines too
C17_EveryComponentPrinted ==
    m_pc = "done" =>
        /\ Len(m_summary) = Len(m_bom)
        /\ \A w \in 1..Len(m_bom) : \A c \in 1..Len(m_bom[w]) :
            \E n \in 1..Len(m_lines) :
                /\ m_lines[n].w = w
                /\ m_lines[n].c = c
                /\ (m_bom[w][c].raises => m_lines[n].cost = 0 /\ m_lines[n].desc = "error")

\* C19: a selection routine never returns a row whose price is zero or
\* negative, and returns not-found when no candidate has a positive price
C19_PickedPricePositive ==
    p_pc = "picked" =>
        /\ (p_row # <<>> => _price(p_row[1]) > 0)
        /\ ((\A n \in 1..Len(p_items) : _price(p_items[n]) <= 0) => p_row = <<>>)

\* C20: with the price-sheet API configured, the download failing and a CSV
\* given, the index comes from the CSV; the run is retail-only only when
\* neither source yields prices
C20_CsvAfterFailedDownload ==
    l_pc = "loaded" =>
        /\ (/\ l_cfg.api # "none" /\ l_cfg.token /\ l_cfg.account
            /\ l_cfg.download = "fails"
            /\ l_cfg.csv = "rows") => l_source = "csv"
        /\ (l_source = "none" =>
                /\ ~(l_cfg.api # "none" /\ l_cfg.token /\ l_cfg.account /\ l_cfg.download = "rows")
                /\ l_cfg.csv # "rows")

C27_BatchOfN ==
    u_pc = "done" => \A b \in BatchUoms : b.text = u_uom => u_ret = b.n

\* C22: when the catalog holds a positive-priced row of the component's
\* service, region and unit whose sku equals the component's sku, together
\* with rows of the service that carry another sku, the unit price is that
\* of a row with the component's sku
C22_SkuMatchPreferred ==
    (/\ r_pc \in {"returned", "raised"}
     /\ ~NegotiatedHit
     /\ \E n \in 1..Len(catalog) : Matching(n)) =>
        /\ r_pc = "returned"
        /\ \E n \in 1..Len(catalog) :
            /\ catalog[n].armSkuName = r_comp.sku
            /\ _price(catalog[n]) > 0
            /\ r_ret.unit = _price(catalog[n])

\* the score of a candidate under the handler whose selection ran
ScoreOf(i) ==
    IF s_handler = "fabric" THEN score(i, FabricSku, tAE, t1Hour)
    ELSE _score_redis_row(i, tAE, Lower(RedisSku), _redis_family_for_sku(RedisSku))

\* the positive-priced candidates
Scored == {s_items[n] : n \in {m \in 1..Len(s_items) : _price(s_items[m]) > 0}}

\* C23: the row selected has the highest score of the candidates, and the
\* lowest price of the candidates with that score, whatever the order in
\* which they were fetched
C23_HighestScoreLowestPrice ==
    (s_pc = "selected" /\ s_handler \in {"fabric", "redis"} /\ Scored # {}) =>
        /\ s_row # <<>>
        /\ \A i \in Scored : ScoreOf(i) <= ScoreOf(s_row[1])
        /\ \A i \in Scored : ScoreOf(i) = ScoreOf(s_row[1]) => _price(s_row[1]) <= _price(i)

\* the identity of a row: its meterId when it has one, otherwise its
\* service, sku, meter, unit of measure and region
Identity(r) ==
    IF r.meterId # 0 THEN <<"meterId", r.meterId>>
    ELSE <<"names", r.serviceName, r.skuName, r.meterName, r.unitOfMeasure, r.armRegionName>>

\* the rows the filters answered, in filter order
Fetched == Concat(RowsOf(s_batches))

\* of the rows of a list, the first of each identity, in the order of the list
RECURSIVE KeepFirst(_)
KeepFirst(all) ==
    IF all = <<>> THEN <<>>
    ELSE LET init == SubSeq(all, 1, Len(all) - 1)
             last == all[Len(all)]
         IN IF \E m \in 1..Len(init) : Identity(init[m]) = Identity(last)
            THEN KeepFirst(init)
            ELSE Append(KeepFirst(init), last)

\* C24: the merged list holds no two rows of the same identity; of the rows
\* sharing an identity the first in filter order is kept, and the rows kept
\* are in the order in which they were fetched
C24_MergedIdentitiesUnique ==
    (s_pc = "merged" /\ ~s_raised) =>
        /\ \A i, j \in 1..Len(s_items) : Identity(s_items[i]) = Identity(s_items[j]) => i = j
        /\ s_items = KeepFirst(Fetched)

\* C25: an error raised by one filter of the cascade is caught: the handler
\* does not raise, and every row the other filters answered is among the
\* merged candidates, itself or as the duplicate of one
C25_FailingFilterIgnored ==
    s_pc = "merged" =>
        /\ ~s_raised
        /\ \A n \in 1..Len(Fetched) :
            \E m \in 1..Len(s_items) :
                \/ s_items[m] = Fetched[n]
                \/ Identity(s_items[m]) = Identity(Fetched[n])
                \/ (s_items[m].meterId = 0 /\ Fetched[n].meterId = 0
                    /\ s_items[m].productId = Fetched[n].productId
                    /\ s_items[m].skuId = Fetched[n].skuId
                    /\ s_items[m].meterName = Fetched[n].meterName)

\* the candidates of App Service that may serve as price source, and those
\* among them whose skuName is the requested sku
AppCandidates == {s_items[n] : n \in {m \in 1..Len(s_items) : _ok_plan_row(s_items[m], AppServiceSku)}}
AppExacts == {i \in AppCandidates : Strip(i.skuName) = AppServiceSku}

\* the price selected by region, then price, before the ceiling is applied
AppSelectedPrice ==
    LET regional == {i \in AppCandidates : i.armRegionName = tAE}
        pool == IF regional # {} THEN regional ELSE AppCandidates
    IN Min({_price(i) : i \in pool})

\* C26: when the hourly price selected for App Service exceeds the ceiling
\* of 1.50 and a positive-priced, non-excluded "1 Hour" candidate carries
\* exactly the requested skuName, the unit price is the lowest price of those
\* candidates; the price above the ceiling is kept only when there is none
C26_CeilingGuardrail ==
    (/\ s_pc = "selected"
     /\ s_handler = "app_service"
     /\ AppCandidates # {}
     /\ AppSelectedPrice > 1500) =>
        IF AppExacts # {}
        THEN s_unit = Min({_price(i) : i \in AppExacts})
        ELSE s_unit = AppSelectedPrice

\* the regional row at 1.80 was selected and replaced by the exact-sku row
\* at 0.20
C26_Witness ==
    /\ s_pc = "selected"
    /\ s_handler = "app_service"
    /\ AppCandidates # {}
    /\ AppSelectedPrice = 1800
    /\ s_unit = 200

\* C28: a checkpoint or lock file that is unreadable or left over is not
\* fatal and means a fresh start: a call is refused only while another
\* download runs, a call that found the checkpoint unreadable fetches the
\* first page first, and until it has saved its own checkpoint the .part
\* file that will become the final file holds no rows but its own
C28_DamagedStartsFresh ==
    /\ [][\A p \in Procs :
            (pc[p] = "lock" /\ pc'[p] = "refused") => \E q \in Procs : Running(q)]_vars
    /\ [](\A p \in Procs :
            (cp = DamagedCheckpoint /\ pc[p] \in {"get", "flush", "checkpoint"}) =>
                /\ url[p] = base
                /\ part.rows = (IF pc[p] = "checkpoint" THEN PageRows(1) ELSE <<>>))

\* the page of the catalog a row of the .part file came from
PageOf(row) == ((row.meterId - 1) \div ItemsPerPage) + 1

\* C29: while a download is between lock acquisition and release - where an
\* interruption can hit it - a checkpoint that exists agrees with the .part
\* file: rows_written is the number of data rows of the .part file and
\* next_link is the NextPageLink of the page its last rows came from
C29_CheckpointAgreesWithPart ==
    (cp.exists /\ part.exists /\ \E p \in Procs : Running(p)) =>
        /\ cp.rows_written = Len(part.rows)
        /\ part.rows # <<>> => cp.next_link = NextPageLink(PageOf(part.rows[Len(part.rows)]))

\* C30: a download that holds the lock and is about to open the .part file
\* proceeds from the checkpoint that is current now: its continuation link,
\* row count and page number are those _load_checkpoint gives at this
\* moment, whatever other downloads did since the call began
C30_ResumesFromCurrentCheckpoint ==
    \A p \in Procs :
        pc[p] = "open" =>
            /\ next_url[p] = ResumeLink(_load_checkpoint)
            /\ total_written[p] = (IF _load_checkpoint.exists THEN _load_checkpoint.rows_written ELSE 0)
            /\ page_no[p] = (IF _load_checkpoint.exists THEN _load_checkpoint.page_no ELSE 0)

====
